---- MODULE Spec2Model ----
(***************************************************************************)
(* Model of the visual-parity pipeline of hiwave-macos:                    *)
(*   scripts/parity_gate.py      the CI gate (load, parity, regressions)   *)
(*   scripts/parity_baseline.py  capture loop and weighted tiered metrics  *)
(*   scripts/parity_test.py      the test runner (run_test, main)          *)
(*   scripts/extract_parity_metrics.py  metrics extraction                 *)
(*                                                                         *)
(* Python dicts are functions (records); d.get(k, default) is Get(d,k,def).*)
(* Percentages are integers; quotients the code computes in floating point *)
(* (means, weighted sums) are exact rationals <<num, den>> in lowest terms *)
(* with den > 0, so the model abstracts from float rounding.               *)
(***************************************************************************)
EXTENDS Integers, Sequences, FiniteSets, TLC

VARIABLES
    \* ---- parity_gate.py main(): arguments and files
    minimum_parity,        \* --minimum
    report_file,           \* the file at --report
    previous_path,         \* TRUE iff --previous was given
    previous_file,         \* the file at --previous
    regression_threshold,  \* --fail-on-regression: [given, value]
    \* ---- parity_gate.py main(): locals
    gate_pc, report, parity, parity_passed, regressions, gate_output, exit_code,
    \* ---- parity_baseline.py main()
    base_pc, builtins, websuite, builtin_results, websuite_results, metrics,
    total_clusters, workorders_created,
    base_exit,             \* exit status of the run, -1 while it runs
    auto_archive,          \* FALSE iff --no-archive was given
    history_dir,           \* parity-history/: whether it can be written, its entries
    packets_created,       \* the cases a failure packet was generated for
    archive_status,        \* what main() printed about the archive step
    trend,                 \* the comparison to the previous run that main() printed
    \* ---- parity_baseline.py main(): one iteration of a capture loop in detail
    layout_pc,             \* where the iteration stands
    capture_env,           \* what the renderer and the file system do for the case
    case_result,           \* the `result` dict of the iteration
    \* ---- parity_test.py run_test(), followed statement by statement
    run_pc,                \* where run_test stands
    run_env,               \* the baseline and capture files and what each run meets
    run_locals,            \* result, run_diffs, last_pixel_result, run_idx
    run_calls,             \* how often capture and each comparison were invoked
    capture_files,         \* the capture artifacts on disk: path -> the run that wrote it
    \* ---- parity_test.py main()
    test_pc, iterations, max_variance,
    threshold_override,    \* --threshold, None when not given
    test_cases, test_results, test_passed, test_failed,
    results_file, avg_diff, worst_cases, test_exit,
    \* ---- extract_parity_metrics.py main()
    extract_pc,
    extract_results,       \* the `results` that main() loaded from --input
    extracted, extract_exit

gateArgs == <<minimum_parity, previous_path, previous_file, regression_threshold>>
gateLocals == <<gate_pc, report, parity, parity_passed, regressions, gate_output, exit_code>>
archiveVars == <<auto_archive, history_dir, packets_created, archive_status, trend>>
baseVars == <<base_pc, builtins, websuite, builtin_results, websuite_results, metrics,
              total_clusters, workorders_created, base_exit, archiveVars>>
layoutVars == <<layout_pc, capture_env, case_result>>
runVars == <<run_pc, run_env, run_locals, run_calls, capture_files>>
testVars == <<test_pc, iterations, max_variance, threshold_override, test_cases, test_results, test_passed, test_failed,
              avg_diff, worst_cases, test_exit>>
extractVars == <<extract_pc, extract_results, extracted, extract_exit>>
vars == <<gateArgs, report_file, gateLocals, baseVars, testVars, results_file, extractVars,
          layoutVars, runVars>>

(***************************************************************************)
(* Bounds of the model.                                                    *)
(***************************************************************************)
MaxCurCases == 2    \* result entries in a report handed to the gate
MaxPrevCases == 1   \* result entries in a previous report
MaxBuiltins == 2    \* built-in cases in an arbitrary case list
MaxWebsuite == 2    \* websuite cases in an arbitrary case list
MaxTestCases == 2   \* cases of a test-runner run
MaxIterations == 3  \* --iterations of a test-runner run

(***************************************************************************)
(* Python helpers.                                                         *)
(***************************************************************************)
EmptyDict == [k \in {} |-> 0]

Get(d, k, default) == IF k \in DOMAIN d THEN d[k] ELSE default

Range(s) == {s[i] : i \in DOMAIN s}

Front(s) == SubSeq(s, 1, Len(s) - 1)

SeqsUpTo(S, n) == UNION {[1..m -> S] : m \in 0..n}

Max(a, b) == IF a >= b THEN a ELSE b

Min(a, b) == IF a <= b THEN a ELSE b

Abs(a) == IF a < 0 THEN -a ELSE a

RECURSIVE Gcd(_, _)
Gcd(a, b) == IF b = 0 THEN a ELSE Gcd(b, a % b)

\* the rational num/den (den > 0) in lowest terms
Rat(num, den) ==
    LET g == Gcd(Abs(num), den) IN <<num \div g, den \div g>>

RInt(n) == <<n, 1>>

RAdd(a, b) == Rat(a[1] * b[2] + b[1] * a[2], a[2] * b[2])

RSub(a, b) == Rat(a[1] * b[2] - b[1] * a[2], a[2] * b[2])

RMul(a, b) == Rat(a[1] * b[1], a[2] * b[2])

RLeq(a, b) == a[1] * b[2] <= b[1] * a[2]

RECURSIVE SumSeq(_)
SumSeq(s) == IF s = <<>> THEN 0 ELSE SumSeq(Front(s)) + s[Len(s)]

(***************************************************************************)
(* parity_gate.py                                                          *)
(***************************************************************************)
\* A path on disk: no file, a file that is not JSON, or a JSON object.
MissingFile == [kind |-> "missing", data |-> EmptyDict]

InvalidFile == [kind |-> "invalid", data |-> EmptyDict]

JsonFile(d) == [kind |-> "json", data |-> d]

\* Python's None as the result of load_report
NoReport == [loaded |-> FALSE, data |-> EmptyDict]

\* load_report(report_path): the parsed object, or None
load_report(file) ==
    IF file.kind = "missing" THEN NoReport
    ELSE IF file.kind = "invalid" THEN NoReport
    ELSE [loaded |-> TRUE, data |-> file.data]

\* mutant: the result of load_report is never tested
AlwaysTruthy(r) == TRUE

\* truth value of `report` in `if not report` / `if previous_report`:
\* None and the empty object {} are both false
Truthy(r) == r.loaded /\ DOMAIN r.data # {}

\* mutant: a missing weighted mean read as diff 0
compute_parity_default_zero(rep) ==
    LET m == Get(rep, "metrics", EmptyDict)
        weighted_mean_diff == Get(m, "tier_b_weighted_mean", RInt(0))
    IN RSub(RInt(100), weighted_mean_diff)

\* compute_parity(report) = 100 - metrics.get("tier_b_weighted_mean", 100)
compute_parity(rep) ==
    LET m == Get(rep, "metrics", EmptyDict)
        weighted_mean_diff == Get(m, "tier_b_weighted_mean", RInt(100))
    IN RSub(RInt(100), weighted_mean_diff)

\* r.get("estimated_diff_pct", 100)
GetDiff(r) == Get(r, "estimated_diff_pct", 100)

\* report.get("builtin_results", []) + report.get("websuite_results", [])
AllResults(rep) == Get(rep, "builtin_results", <<>>) \o Get(rep, "websuite_results", <<>>)

\* keys of the dict {r["case_id"]: ...} built over a result list, in insertion order
RECURSIVE DictKeys(_)
DictKeys(rs) ==
    IF rs = <<>> THEN <<>>
    ELSE LET ks == DictKeys(Front(rs))
             k == rs[Len(rs)].case_id
         IN IF k \in Range(ks) THEN ks ELSE Append(ks, k)

\* value of that dict at key k: the last entry for k wins
DictValue(rs, k) ==
    LET last == CHOOSE i \in DOMAIN rs :
                    /\ rs[i].case_id = k
                    /\ \A j \in DOMAIN rs : rs[j].case_id = k => j <= i
    IN GetDiff(rs[last])

\* mutant: a case absent from the previous report taken as previous diff 0
RegressionEntryNewAsZero(cur, prev, k) ==
    LET current_diff == DictValue(cur, k)
        previous_diff == IF k \in Range(DictKeys(prev)) THEN DictValue(prev, k) ELSE 0
    IN [case_id |-> k, previous_diff |-> previous_diff,
        current_diff |-> current_diff, delta |-> current_diff - previous_diff]

RegressionEntry(cur, prev, k) ==
    LET current_diff == DictValue(cur, k)
        previous_diff == IF k \in Range(DictKeys(prev)) THEN DictValue(prev, k) ELSE 100
    IN [case_id |-> k, previous_diff |-> previous_diff,
        current_diff |-> current_diff, delta |-> current_diff - previous_diff]

\* the test `delta > threshold` of check_regressions
ExceedsThreshold(delta, threshold) == delta > threshold

RECURSIVE CollectRegressions(_, _, _, _)
CollectRegressions(keys, cur, prev, threshold) ==
    IF keys = <<>> THEN <<>>
    ELSE LET rest == CollectRegressions(Front(keys), cur, prev, threshold)
             e == RegressionEntry(cur, prev, keys[Len(keys)])
         IN IF ExceedsThreshold(e.delta, threshold) THEN Append(rest, e) ELSE rest

\* check_regressions(current_report, previous_report, threshold)
check_regressions(current_report, previous_report, threshold) ==
    LET cur == AllResults(current_report)
        prev == AllResults(previous_report)
    IN CollectRegressions(DictKeys(cur), cur, prev, threshold)

\* truth value of `regression_threshold and previous_path`: None and 0.0 are false
RegressionRequested(threshold, path) ==
    /\ threshold.given
    /\ threshold.value # 0
    /\ path

\* main(): load the current report, exit 1 when it is None or empty
GateLoad ==
    /\ gate_pc = "start"
    /\ base_pc = "done"
    /\ report' = load_report(report_file)
    /\ IF Truthy(report')
       THEN gate_pc' = "loaded" /\ exit_code' = exit_code
       ELSE gate_pc' = "exited" /\ exit_code' = 1
    /\ UNCHANGED <<gateArgs, report_file, parity, parity_passed, regressions,
                   gate_output, baseVars, testVars, results_file, extractVars, layoutVars, runVars>>

\* mutant: parity > minimum
ParityPassedStrict(p, minimum) == ~RLeq(p, RInt(minimum))

ParityPassed(p, minimum) == RLeq(RInt(minimum), p)

\* main(): compute parity and compare with the minimum
GateParity ==
    /\ gate_pc = "loaded"
    /\ parity' = compute_parity(report.data)
    /\ parity_passed' = ParityPassed(parity', minimum_parity)
    /\ gate_pc' = "checked"
    /\ UNCHANGED <<gateArgs, report_file, report, regressions, gate_output,
                   exit_code, baseVars, testVars, results_file, extractVars, layoutVars, runVars>>

\* main(): the regression block
GateRegressions ==
    /\ gate_pc = "checked"
    /\ regressions' =
         IF RegressionRequested(regression_threshold, previous_path)
         THEN LET previous_report == load_report(previous_file)
              IN IF Truthy(previous_report)
                 THEN check_regressions(report.data, previous_report.data,
                                        regression_threshold.value)
                 ELSE <<>>
         ELSE <<>>
    /\ gate_pc' = "regressed"
    /\ UNCHANGED <<gateArgs, report_file, report, parity, parity_passed,
                   gate_output, exit_code, baseVars, testVars, results_file, extractVars, layoutVars, runVars>>

GatePasses(passed, regs) == passed /\ regs = <<>>

\* main(): the final verdict
GateVerdict ==
    /\ gate_pc = "regressed"
    /\ IF GatePasses(parity_passed, regressions)
       THEN gate_output' = "GATE: PASSED" /\ exit_code' = 0
       ELSE gate_output' = "GATE: FAILED" /\ exit_code' = 1
    /\ gate_pc' = "exited"
    /\ UNCHANGED <<gateArgs, report_file, report, parity, parity_passed,
                   regressions, baseVars, testVars, results_file, extractVars, layoutVars, runVars>>

GateNext == GateLoad \/ GateParity \/ GateRegressions \/ GateVerdict

\* ---- inputs of the gate
GateCaseIds == {"a", "b"}

GateDiffs == {10, 40}

GateEntries ==
    {[case_id |-> c, estimated_diff_pct |-> d] : c \in GateCaseIds, d \in GateDiffs}
        \cup {[case_id |-> "a"]}

\* the "metrics" of a report: absent, with the weighted mean, without it
MetricsChoices ==
    {EmptyDict, [tier_b_weighted_mean |-> RInt(22)], [tier_a_pass_rate |-> RInt(1)]}

\* a report object: keys are present only when they hold something
MkReport(m, rs) ==
    LET half == (Len(rs) + 1) \div 2
        b == SubSeq(rs, 1, half)
        w == SubSeq(rs, half + 1, Len(rs))
        keys == (IF m = EmptyDict THEN {} ELSE {"metrics"})
                  \cup (IF b = <<>> THEN {} ELSE {"builtin_results"})
                  \cup (IF w = <<>> THEN {} ELSE {"websuite_results"})
    IN [k \in keys |-> IF k = "metrics" THEN m
                       ELSE IF k = "builtin_results" THEN b ELSE w]

ReportFiles(n) ==
    {MissingFile, InvalidFile}
        \cup {JsonFile(MkReport(m, rs)) : m \in MetricsChoices, rs \in SeqsUpTo(GateEntries, n)}

PreviousFiles(n) ==
    {MissingFile, InvalidFile}
        \cup {JsonFile(MkReport(EmptyDict, rs)) : rs \in SeqsUpTo(GateEntries, n)}

MinimumParities == {0, 1, 78, 80}

NoThreshold == [given |-> FALSE, value |-> 0]

Thresholds == {NoThreshold} \cup {[given |-> TRUE, value |-> v] : v \in {-5, 0, 20}}

GateLocalsInit ==
    /\ gate_pc = "start"
    /\ report = NoReport
    /\ parity = RInt(0)
    /\ parity_passed = FALSE
    /\ regressions = <<>>
    /\ gate_output = ""
    /\ exit_code = -1

BaseIdle ==
    /\ base_pc = "done"
    /\ builtins = <<>>
    /\ websuite = <<>>
    /\ builtin_results = <<>>
    /\ websuite_results = <<>>
    /\ metrics = EmptyDict
    /\ total_clusters = EmptyDict
    /\ workorders_created = <<>>
    /\ base_exit = -1
    /\ auto_archive = FALSE
    /\ history_dir = [writable |-> FALSE, entries |-> <<>>]
    /\ packets_created = <<>>
    /\ archive_status = ""
    /\ trend = EmptyDict

\* Python's None
PyNone == [py_none |-> TRUE]

\* no capture-loop iteration is followed in detail
LayoutIdle ==
    /\ layout_pc = "done"
    /\ capture_env = PyNone
    /\ case_result = PyNone

NoCalls == [capture |-> 0, pixel |-> 0, styles |-> 0, rects |-> 0]

\* no call of run_test is followed statement by statement
RunIdle ==
    /\ run_pc = "idle"
    /\ run_env = PyNone
    /\ run_locals = PyNone
    /\ run_calls = NoCalls
    /\ capture_files = EmptyDict

\* no test-runner run and no metrics extraction take part
TestIdle ==
    /\ test_pc = "exited"
    /\ iterations = 1
    /\ max_variance = 0
    /\ threshold_override = PyNone
    /\ test_cases = <<>>
    /\ test_results = <<>>
    /\ test_passed = 0
    /\ test_failed = 0
    /\ results_file = MissingFile
    /\ avg_diff = PyNone
    /\ worst_cases = <<>>
    /\ test_exit = -1
    /\ extract_pc = "exited"
    /\ extract_results = PyNone
    /\ extracted = PyNone
    /\ extract_exit = -1

\* the gate run on any report file, with any arguments
InitGate ==
    /\ minimum_parity \in MinimumParities
    /\ report_file \in ReportFiles(MaxCurCases)
    /\ previous_path \in BOOLEAN
    /\ previous_file \in (IF previous_path THEN PreviousFiles(MaxPrevCases) ELSE {MissingFile})
    /\ regression_threshold \in Thresholds
    /\ GateLocalsInit
    /\ BaseIdle
    /\ TestIdle
    /\ LayoutIdle
    /\ RunIdle

SpecGate == InitGate /\ [][GateNext]_vars

(***************************************************************************)
(* parity_baseline.py                                                      *)
(***************************************************************************)
BUILTINS_WEIGHT == Rat(60, 100)

WEBSUITE_WEIGHT == Rat(40, 100)

TIER_A_THRESHOLD == 25

\* len(BUILTINS), len(WEBSUITE): the case lists the script ships with
NumBuiltins == 5

NumWebsuite == 8

\* get_diffs(results)
get_diffs(results) == [i \in DOMAIN results |-> GetDiff(results[i])]

\* mutant: d < TIER_A_THRESHOLD
PassesTierAStrict(d) == d < TIER_A_THRESHOLD

\* the test `d <= TIER_A_THRESHOLD`
PassesTierA(d) == d <= TIER_A_THRESHOLD

\* sum(1 for d in diffs if d <= TIER_A_THRESHOLD)
RECURSIVE PassCount(_)
PassCount(diffs) ==
    IF diffs = <<>> THEN 0
    ELSE PassCount(Front(diffs)) + (IF PassesTierA(diffs[Len(diffs)]) THEN 1 ELSE 0)

\* ... / max(1, len(diffs))
PassRate(diffs) == Rat(PassCount(diffs), Max(1, Len(diffs)))

\* sum(diffs) / max(1, len(diffs))
MeanDiff(diffs) == Rat(SumSeq(diffs), Max(1, Len(diffs)))

\* mutant: the two weights exchanged
WeightedSwapped(b, w) == RAdd(RMul(b, WEBSUITE_WEIGHT), RMul(w, BUILTINS_WEIGHT))

\* b * BUILTINS_WEIGHT + w * WEBSUITE_WEIGHT
Weighted(b, w) == RAdd(RMul(b, BUILTINS_WEIGHT), RMul(w, WEBSUITE_WEIGHT))

\* list.sort(): ascending
RECURSIVE InsertAsc(_, _)
InsertAsc(s, x) ==
    IF s = <<>> THEN <<x>>
    ELSE IF s[Len(s)] <= x THEN Append(s, x)
    ELSE Append(InsertAsc(Front(s), x), s[Len(s)])

RECURSIVE SortAsc(_)
SortAsc(s) == IF s = <<>> THEN <<>> ELSE InsertAsc(SortAsc(Front(s)), s[Len(s)])

\* all_diffs[len(all_diffs) // 2] if all_diffs else 100   (0-based index)
MedianDiff(all_diffs) ==
    LET sorted == SortAsc(all_diffs)
    IN IF sorted = <<>> THEN 100 ELSE sorted[(Len(sorted) \div 2) + 1]

\* list.sort(key = diff, reverse = True): descending by diff, and stable (entries
\* with equal keys keep their relative order)
RECURSIVE InsertDesc(_, _)
InsertDesc(s, x) ==
    IF s = <<>> THEN <<x>>
    ELSE IF GetDiff(s[Len(s)][1]) >= GetDiff(x[1]) THEN Append(s, x)
    ELSE Append(InsertDesc(Front(s), x), s[Len(s)])

\* mutant: a descending sort that puts a later entry before its equals
RECURSIVE InsertDescFirst(_, _)
InsertDescFirst(s, x) ==
    IF s = <<>> THEN <<x>>
    ELSE IF GetDiff(s[Len(s)][1]) > GetDiff(x[1]) THEN Append(s, x)
    ELSE Append(InsertDescFirst(Front(s), x), s[Len(s)])

RECURSIVE SortByDiffDescUnstable(_)
SortByDiffDescUnstable(s) ==
    IF s = <<>> THEN <<>> ELSE InsertDescFirst(SortByDiffDescUnstable(Front(s)), s[Len(s)])

RECURSIVE SortByDiffDesc(_)
SortByDiffDesc(s) ==
    IF s = <<>> THEN <<>> ELSE InsertDesc(SortByDiffDesc(Front(s)), s[Len(s)])

Tagged(results, t) == [i \in DOMAIN results |-> <<results[i], t>>]

\* the worst_3 list of compute_weighted_metrics
Worst3(b_results, w_results) ==
    LET all_results == SortByDiffDesc(Tagged(b_results, "builtin") \o Tagged(w_results, "websuite"))
        top == SubSeq(all_results, 1, Min(3, Len(all_results)))
    IN [i \in DOMAIN top |-> [case_id |-> top[i][1].case_id, type |-> top[i][2],
                              diff_pct |-> GetDiff(top[i][1])]]

\* compute_weighted_metrics(builtin_results, websuite_results)
compute_weighted_metrics(b_results, w_results) ==
    LET builtin_diffs == get_diffs(b_results)
        websuite_diffs == get_diffs(w_results)
        builtin_pass == PassRate(builtin_diffs)
        websuite_pass == PassRate(websuite_diffs)
    IN [tier_a_threshold |-> TIER_A_THRESHOLD,
        tier_a_pass_rate |-> Weighted(builtin_pass, websuite_pass),
        tier_a_builtin_pass |-> builtin_pass,
        tier_a_websuite_pass |-> websuite_pass,
        tier_b_median_diff |-> MedianDiff(builtin_diffs \o websuite_diffs),
        tier_b_weighted_mean |-> Weighted(MeanDiff(builtin_diffs), MeanDiff(websuite_diffs)),
        worst_3_cases |-> Worst3(b_results, w_results),
        builtin_mean_diff |-> MeanDiff(builtin_diffs),
        websuite_mean_diff |-> MeanDiff(websuite_diffs)]

(***************************************************************************)
(* parity_baseline.py: one iteration of a capture loop of main() in        *)
(* detail, from the renderer's output to the estimated_diff_pct and the    *)
(* issue_clusters stored on the case result.  Rates are exact rationals.   *)
(***************************************************************************)
MaxTreeDepth == 2   \* depth of the deepest box of a layout tree (root = 0)

RMin(a, b) == IF RLeq(a, b) THEN a ELSE b

RMax(a, b) == IF RLeq(b, a) THEN a ELSE b

Restrict(f, K) == [k \in K |-> f[k]]

\* Python truthiness of a value that is None or a dict
TruthyDict(d) == d # PyNone /\ DOMAIN d # {}

\* the `stats` dict analyze_layout starts from
EmptyStats ==
    [total_boxes |-> 0, positioned |-> 0, sized |-> 0, zero_size |-> 0, at_origin |-> 0,
     form_controls |-> 0, text_boxes |-> 0, block_boxes |-> 0, image_boxes |-> 0,
     issues |-> <<>>]

\* rect = node.get("content_rect") or node.get("rect", {})
NodeRect(node) ==
    IF "content_rect" \in DOMAIN node /\ DOMAIN node.content_rect # {}
    THEN node.content_rect
    ELSE Get(node, "rect", EmptyDict)

\* the test `depth > 1`
IssueDepth(depth) == depth > 1

\* the body of walk() before it descends into the children
VisitNode(stats, node, depth) ==
    LET rect == NodeRect(node)
        x == Get(rect, "x", 0)
        y == Get(rect, "y", 0)
        w == Get(rect, "width", 0)
        h == Get(rect, "height", 0)
        node_type == Get(node, "type", "unknown")
        is_sized == w > 0 /\ h > 0
        is_issue == ~is_sized /\ IssueDepth(depth)
                      /\ node_type \notin {"text", "anonymous_block"}
    IN [total_boxes |-> stats.total_boxes + 1,
        positioned |-> stats.positioned + (IF x # 0 \/ y # 0 THEN 1 ELSE 0),
        at_origin |-> stats.at_origin + (IF x # 0 \/ y # 0 THEN 0 ELSE 1),
        sized |-> stats.sized + (IF is_sized THEN 1 ELSE 0),
        zero_size |-> stats.zero_size + (IF is_sized THEN 0 ELSE 1),
        issues |-> IF is_issue
                   THEN Append(stats.issues,
                               [type |-> "zero_size", node_type |-> node_type, depth |-> depth])
                   ELSE stats.issues,
        form_controls |-> stats.form_controls + (IF node_type = "form_control" THEN 1 ELSE 0),
        text_boxes |-> stats.text_boxes + (IF node_type = "text" THEN 1 ELSE 0),
        block_boxes |-> stats.block_boxes + (IF node_type = "block" THEN 1 ELSE 0),
        image_boxes |-> stats.image_boxes + (IF node_type = "image" THEN 1 ELSE 0)]

\* walk(node, depth): the node, then its children in order, each at depth + 1
RECURSIVE walk(_, _, _)
RECURSIVE WalkChildren(_, _, _)
walk(stats, node, depth) ==
    WalkChildren(VisitNode(stats, node, depth), Get(node, "children", <<>>), depth + 1)

WalkChildren(stats, children, depth) ==
    IF children = <<>> THEN stats
    ELSE WalkChildren(walk(stats, Head(children), depth), Tail(children), depth)

\* analyze_layout(layout_path) for a layout file that exists and parses
AnalyzeData(data) ==
    LET stats == IF "root" \in DOMAIN data THEN walk(EmptyStats, data.root, 0) ELSE EmptyStats
        rates == [sizing_rate |-> Rat(stats.sized, Max(1, stats.total_boxes)),
                  positioning_rate |-> Rat(stats.positioned, Max(1, stats.total_boxes))]
    IN [k \in DOMAIN stats \cup DOMAIN rates |->
          IF k \in DOMAIN rates THEN rates[k] ELSE stats[k]]

\* analyze_layout(layout_path); layout_path is None when the file does not exist
analyze_layout(file) ==
    IF file.kind = "missing" THEN [error |-> "No layout file"]
    ELSE AnalyzeData(file.data)

\* mutant: an issue of an unknown node type counted as a paint issue
IssueBucketUnknownAsPaint(issue) ==
    IF issue.node_type \in {"form_control", "block"} THEN "sizing_layout"
    ELSE IF issue.node_type = "text" THEN "text"
    ELSE IF issue.node_type = "image" THEN "images"
    ELSE "paint"

\* classify_issues: the bucket of one issue
IssueBucket(issue) ==
    IF issue.node_type \in {"form_control", "block"} THEN "sizing_layout"
    ELSE IF issue.node_type = "text" THEN "text"
    ELSE IF issue.node_type = "image" THEN "images"
    ELSE "sizing_layout"

ZeroClusters == [sizing_layout |-> 0, paint |-> 0, text |-> 0, images |-> 0]

\* classify_issues(layout_stats)
RECURSIVE ClassifyList(_, _)
ClassifyList(clusters, issues) ==
    IF issues = <<>> THEN clusters
    ELSE LET issue == Head(issues)
             next == IF issue.type = "zero_size"
                     THEN [clusters EXCEPT ![IssueBucket(issue)] = @ + 1]
                     ELSE clusters
         IN ClassifyList(next, Tail(issues))

classify_issues(layout_stats) == ClassifyList(ZeroClusters, Get(layout_stats, "issues", <<>>))

\* mutant: no clamping
NoClamp(v) == v

\* min(100, max(0, v))
Clamp(v) == RMin(RInt(100), RMax(RInt(0), v))

\* estimate_diff_percent(layout_stats)
estimate_diff_percent(stats) ==
    IF "error" \in DOMAIN stats THEN RInt(100)
    ELSE LET sizing_rate == Get(stats, "sizing_rate", RInt(0))
             positioning_rate == Get(stats, "positioning_rate", RInt(0))
             quality == RAdd(RMul(sizing_rate, Rat(6, 10)), RMul(positioning_rate, Rat(4, 10)))
             base_diff == RMul(RInt(100), RSub(RInt(1), quality))
             zero_penalty == Min(30, Get(stats, "zero_size", 0) * 2)
         IN Clamp(RAdd(base_diff, RInt(zero_penalty)))

\* run_rustkit_capture(case_id, ...): the result dict, given what the renderer
\* printed and which files exist afterwards
run_rustkit_capture(env) ==
    IF env.raises
    THEN [case_id |-> "case", success |-> FALSE, error |-> "Timeout after 120s"]
    ELSE LET success == env.status_ok /\ env.frame_exists
         IN [case_id |-> "case", success |-> success,
             layout_path |-> IF env.layout_file.kind = "missing" THEN PyNone ELSE "layout.json",
             layout_stats |-> env.tool_stats,
             error |-> IF success THEN PyNone ELSE "Process exited with code 1"]

\* main(): result = run_rustkit_capture(...)
LayoutCapture ==
    /\ layout_pc = "capture"
    /\ case_result' = run_rustkit_capture(capture_env)
    /\ layout_pc' = "captured"
    /\ UNCHANGED <<gateArgs, report_file, gateLocals, baseVars, testVars, results_file,
                   extractVars, capture_env, runVars>>

\* main(): the branch `if result["success"]` down to result["layout_stats"] = ...;
\* json.load raises on a layout file that does not parse and the run ends
LayoutAnalyze ==
    /\ layout_pc = "captured"
    /\ case_result.success
    /\ IF TruthyDict(case_result.layout_stats)
       THEN /\ layout_pc' = "analyzed"
            /\ UNCHANGED case_result
       ELSE IF capture_env.layout_file.kind = "invalid"
       THEN /\ layout_pc' = "raised"
            /\ UNCHANGED case_result
       ELSE /\ layout_pc' = "analyzed"
            /\ case_result' = [case_result EXCEPT
                                 !.layout_stats = analyze_layout(capture_env.layout_file)]
    /\ UNCHANGED <<gateArgs, report_file, gateLocals, baseVars, testVars, results_file,
                   extractVars, capture_env, runVars>>

\* main(): result["estimated_diff_pct"] = ...; result["issue_clusters"] = ...
LayoutEstimate ==
    /\ layout_pc = "analyzed"
    /\ case_result' =
         [k \in DOMAIN case_result \cup {"estimated_diff_pct", "issue_clusters"} |->
            IF k = "estimated_diff_pct" THEN estimate_diff_percent(case_result.layout_stats)
            ELSE IF k = "issue_clusters" THEN classify_issues(case_result.layout_stats)
            ELSE case_result[k]]
    /\ layout_pc' = "done"
    /\ UNCHANGED <<gateArgs, report_file, gateLocals, baseVars, testVars, results_file,
                   extractVars, capture_env, runVars>>

\* main(): the else branch of `if result["success"]`
LayoutFailure ==
    /\ layout_pc = "captured"
    /\ ~case_result.success
    /\ case_result' =
         [k \in DOMAIN case_result \cup {"estimated_diff_pct", "issue_clusters"} |->
            IF k = "estimated_diff_pct" THEN RInt(100)
            ELSE IF k = "issue_clusters" THEN [sizing_layout |-> 1]
            ELSE case_result[k]]
    /\ layout_pc' = "done"
    /\ UNCHANGED <<gateArgs, report_file, gateLocals, baseVars, testVars, results_file,
                   extractVars, capture_env, runVars>>

LayoutNext == LayoutCapture \/ LayoutAnalyze \/ LayoutEstimate \/ LayoutFailure

\* ---- inputs of the iteration
NodeTypes == {"block", "text", "anonymous_block", "image", "form_control"}

NodeRects ==
    {[x |-> 8, y |-> 0, width |-> 10, height |-> 10],
     [x |-> 0, y |-> 0, width |-> 0, height |-> 10],
     [x |-> 0, y |-> 0, width |-> 10, height |-> 0]}

LeafNodes == {[type |-> t, rect |-> r, children |-> <<>>] : t \in NodeTypes, r \in NodeRects}

\* layout trees whose deepest box is at depth <= d below this node: every box has
\* one child, or none, and the parent of a leaf may hold the leaf twice
RECURSIVE LayoutTrees(_)
LayoutTrees(d) ==
    IF d = 0 THEN LeafNodes
    ELSE LeafNodes
           \cup {[type |-> n.type, rect |-> n.rect, children |-> <<c>>] :
                   n \in LeafNodes, c \in LayoutTrees(d - 1)}
           \cup (IF d = 1
                 THEN {[type |-> n.type, rect |-> n.rect, children |-> <<c, c>>] :
                         n \in LeafNodes, c \in LeafNodes}
                 ELSE {})

LayoutFiles ==
    {MissingFile, InvalidFile, JsonFile(EmptyDict)}
        \cup {JsonFile([root |-> t]) : t \in LayoutTrees(MaxTreeDepth)}

ToolIssues ==
    {<<>>,
     <<[type |-> "zero_size", node_type |-> "text", depth |-> 2],
       [type |-> "overflow", node_type |-> "block", depth |-> 2],
       [type |-> "zero_size", node_type |-> "inline", depth |-> 3]>>}

\* layout_stats the renderer itself reports: any JSON object
ToolStats ==
    {[error |-> "layout failed"]}
        \cup {Restrict(full, K) :
                full \in [sizing_rate : {RInt(-1), Rat(1, 2), RInt(1), RInt(2)},
                          positioning_rate : {RInt(0), RInt(1)},
                          zero_size : {-3, 0, 5, 20},
                          issues : ToolIssues],
                K \in SUBSET {"sizing_rate", "positioning_rate", "zero_size", "issues"}}

CaptureEnvs ==
    {[raises |-> TRUE, status_ok |-> FALSE, frame_exists |-> FALSE,
      tool_stats |-> PyNone, layout_file |-> MissingFile]}
        \cup [raises : {FALSE}, status_ok : BOOLEAN, frame_exists : BOOLEAN,
              tool_stats : ToolStats, layout_file : {MissingFile}]
        \cup [raises : {FALSE}, status_ok : {TRUE}, frame_exists : {TRUE},
              tool_stats : {PyNone}, layout_file : LayoutFiles]

(***************************************************************************)
(* parity_baseline.py: the whole run of main().                            *)
(***************************************************************************)
\* main(): layout_stats = result.get("layout_stats"), or analyze_layout of the
\* layout file when the renderer reported none
LayoutStatsOf(capture) ==
    IF "issues" \in DOMAIN capture THEN [issues |-> capture.issues]
    ELSE IF "layout_file" \in DOMAIN capture THEN analyze_layout(capture.layout_file)
    ELSE EmptyDict

\* main(): one iteration of a capture loop. `case.capture` is what the renderer
\* does for the case: it fails (success = False), or it succeeds and `est` is the
\* estimate_diff_percent of the layout it produced, `issues` the issues of its
\* layout statistics (none when the field is left out).
CaseResult(case) ==
    IF case.capture.success
    THEN [case_id |-> case.case_id, success |-> TRUE,
          estimated_diff_pct |-> case.capture.est,
          issue_clusters |-> classify_issues(LayoutStatsOf(case.capture))]
    ELSE [case_id |-> case.case_id, success |-> FALSE, estimated_diff_pct |-> 100,
          issue_clusters |-> [sizing_layout |-> 1]]

\* main(): the capture succeeded, the renderer printed no layout_stats and the
\* layout file it wrote does not parse: json.load in analyze_layout raises, and
\* nothing in main() catches it
AnalysisRaises(case) ==
    /\ case.capture.success
    /\ "issues" \notin DOMAIN case.capture
    /\ Get(case.capture, "layout_file", MissingFile).kind = "invalid"

\* where main() stands once nb built-in and nw websuite cases are captured
LoopPc(nb, nw) ==
    IF nb < Len(builtins) THEN "builtins"
    ELSE IF nw < Len(websuite) THEN "websuite"
    ELSE "metrics"

\* main(): "for case_id, ... in BUILTINS"
CaptureBuiltin ==
    /\ base_pc = "builtins"
    /\ LET case == builtins[Len(builtin_results) + 1]
       IN IF AnalysisRaises(case)
          THEN /\ base_pc' = "raised"
               /\ base_exit' = 1
               /\ UNCHANGED builtin_results
          ELSE /\ builtin_results' = Append(builtin_results, CaseResult(case))
               /\ base_pc' = LoopPc(Len(builtin_results'), 0)
               /\ UNCHANGED base_exit
    /\ UNCHANGED <<gateArgs, report_file, gateLocals, builtins, websuite,
                   websuite_results, metrics, total_clusters, workorders_created,
                   archiveVars, testVars, results_file, extractVars, layoutVars, runVars>>

\* main(): "for case_id, ... in WEBSUITE"
CaptureWebsuite ==
    /\ base_pc = "websuite"
    /\ LET case == websuite[Len(websuite_results) + 1]
       IN IF AnalysisRaises(case)
          THEN /\ base_pc' = "raised"
               /\ base_exit' = 1
               /\ UNCHANGED websuite_results
          ELSE /\ websuite_results' = Append(websuite_results, CaseResult(case))
               /\ base_pc' = LoopPc(Len(builtin_results), Len(websuite_results'))
               /\ UNCHANGED base_exit
    /\ UNCHANGED <<gateArgs, report_file, gateLocals, builtins, websuite,
                   builtin_results, metrics, total_clusters, workorders_created,
                   archiveVars, testVars, results_file, extractVars, layoutVars, runVars>>

\* main(): metrics = compute_weighted_metrics(builtin_results, websuite_results)
ComputeMetrics ==
    /\ base_pc = "metrics"
    /\ metrics' = compute_weighted_metrics(builtin_results, websuite_results)
    /\ base_pc' = "report"
    /\ UNCHANGED <<gateArgs, report_file, gateLocals, builtins, websuite,
                   builtin_results, websuite_results, total_clusters, workorders_created,
                   base_exit, archiveVars,
                   testVars, results_file, extractVars, layoutVars, runVars>>

\* "for k, v in r.get("issue_clusters", {}).items(): total_clusters[k] += v"
AddClusters(total, r) ==
    LET c == Get(r, "issue_clusters", EmptyDict)
    IN [k \in DOMAIN total |-> total[k] + Get(c, k, 0)]

RECURSIVE AggregateClusters(_, _)
AggregateClusters(total, results) ==
    IF results = <<>> THEN total
    ELSE AggregateClusters(AddClusters(total, Head(results)), Tail(results))

\* the insertion order of total_clusters, which dict.items() follows
ClusterOrder == <<"sizing_layout", "paint", "text", "images">>

\* mutant: count >= 10
PriorityHighInclusive(count) == count >= 10

\* the test `count > 10`
PriorityHigh(count) == count > 10

\* mutant: equal counts come out in reverse insertion order
RECURSIVE InsertByCountDescFirst(_, _)
InsertByCountDescFirst(s, x) ==
    IF s = <<>> THEN <<x>>
    ELSE IF s[Len(s)][2] > x[2] THEN Append(s, x)
    ELSE Append(InsertByCountDescFirst(Front(s), x), s[Len(s)])

\* sorted(clusters.items(), key=lambda x: -x[1]): descending by count, stable
RECURSIVE InsertByCountDesc(_, _)
InsertByCountDesc(s, x) ==
    IF s = <<>> THEN <<x>>
    ELSE IF s[Len(s)][2] >= x[2] THEN Append(s, x)
    ELSE Append(InsertByCountDesc(Front(s), x), s[Len(s)])

RECURSIVE SortByCountDesc(_)
SortByCountDesc(items) ==
    IF items = <<>> THEN <<>>
    ELSE InsertByCountDesc(SortByCountDesc(Front(items)), items[Len(items)])

\* the work orders of the loop over sorted_clusters
RECURSIVE ClusterWorkorders(_)
ClusterWorkorders(sorted_clusters) ==
    IF sorted_clusters = <<>> THEN <<>>
    ELSE LET cluster_name == Head(sorted_clusters)[1]
             count == Head(sorted_clusters)[2]
             rest == ClusterWorkorders(Tail(sorted_clusters))
         IN IF count = 0 THEN rest
            ELSE <<[path |-> <<cluster_name, ".json">>,
                    priority |-> IF PriorityHigh(count) THEN "high" ELSE "medium",
                    cluster |-> cluster_name,
                    issue_count |-> count]>> \o rest

\* generate_workorders(clusters, worst_cases, output_dir): the work orders written,
\* in the order of the returned list of their paths
generate_workorders(clusters, worst) ==
    LET items == [i \in DOMAIN ClusterOrder |-> <<ClusterOrder[i], clusters[ClusterOrder[i]]>>]
        created == ClusterWorkorders(SortByCountDesc(items))
    IN IF worst # <<>>
       THEN Append(created, [path |-> <<"top_failures", ".json">>, priority |-> "critical",
                             cases |-> worst])
       ELSE created

\* main(): aggregate the issue clusters, build the report and json.dump it to
\* baseline_report.json
SaveReport ==
    /\ base_pc = "report"
    /\ total_clusters' = AggregateClusters(ZeroClusters, builtin_results \o websuite_results)
    /\ report_file' = JsonFile([metrics |-> metrics,
                                issue_clusters |-> total_clusters',
                                builtin_results |-> builtin_results,
                                websuite_results |-> websuite_results])
    /\ base_pc' = "workorders"
    /\ UNCHANGED <<gateArgs, gateLocals, builtins, websuite, builtin_results,
                   websuite_results, metrics, workorders_created, base_exit, archiveVars,
                   testVars, results_file, extractVars, layoutVars, runVars>>

\* main(): workorders_created = generate_workorders(total_clusters,
\* metrics["worst_3_cases"], workorders_dir)
GenerateWorkorders ==
    /\ base_pc = "workorders"
    /\ workorders_created' = generate_workorders(total_clusters, metrics.worst_3_cases)
    /\ base_pc' = "packets"
    /\ UNCHANGED <<gateArgs, report_file, gateLocals, builtins, websuite, builtin_results,
                   websuite_results, metrics, total_clusters, base_exit, archiveVars,
                   testVars, results_file, extractVars, layoutVars, runVars>>

\* main(): all_results.get(case_id) of {r["case_id"]: r for r in results}: the
\* last result of the case, None when there is none
ResultOf(results, case_id) ==
    LET at == {i \in DOMAIN results : results[i].case_id = case_id}
    IN IF at = {} THEN PyNone
       ELSE results[CHOOSE i \in at : \A j \in at : j <= i]

\* main(): the worst cases a failure packet is generated for, those whose
\* capture succeeded
FailurePacketCases(worst, results) ==
    LET ids == [i \in DOMAIN worst |-> worst[i].case_id]
    IN SelectSeq(ids, LAMBDA id : Get(ResultOf(results, id), "success", FALSE))

\* main(): "Generating Failure Packets for Top 3 Cases" and the parity estimate
GeneratePackets ==
    /\ base_pc = "packets"
    /\ packets_created' = FailurePacketCases(metrics.worst_3_cases,
                                             builtin_results \o websuite_results)
    /\ base_pc' = "archive"
    /\ UNCHANGED <<gateArgs, report_file, gateLocals, builtins, websuite, builtin_results,
                   websuite_results, metrics, total_clusters, workorders_created, base_exit,
                   auto_archive, history_dir, archive_status, trend,
                   testVars, results_file, extractVars, layoutVars, runVars>>

\* parity_archive.extract_summary: the summary document of a run, its parity
\* estimate and the diff of every case
extract_summary(rep) ==
    LET results == AllResults(rep)
    IN [estimated_parity |-> RSub(RInt(100), rep.metrics.tier_b_weighted_mean),
        case_diffs |-> [id \in {results[i].case_id : i \in DOMAIN results} |->
                          [diff_pct |-> GetDiff(ResultOf(results, id))]]]

\* parity_archive.archive_run: a new entry after the existing ones, holding the
\* summary of the report; nothing when the history cannot be written. The report
\* itself is only read.
archive_run(file, history) ==
    IF ~history.writable \/ file.kind # "json" THEN PyNone
    ELSE [name |-> Len(history.entries) + 1,
          entries |-> Append(history.entries, JsonFile(extract_summary(file.data)))]

\* parity_archive.get_previous_run: the entry right before run_id in creation
\* order, 0 (nothing) for the first entry
get_previous_run(entries, run_id) == IF run_id > 1 THEN run_id - 1 ELSE 0

\* cases.get(case_id, {}).get("diff_pct", 100)
CaseDiff(cases, case_id) == Get(Get(cases, case_id, EmptyDict), "diff_pct", 100)

\* mutant: a move of exactly 5 points is not flagged
SignificantStrict(case_delta) == Abs(case_delta) > 5

\* "if abs(case_delta) >= 5"
Significant(case_delta) == Abs(case_delta) >= 5

\* main(): "Comparison to Previous Run": the change of the parity estimate and
\* the significant case changes (case_id, prev_diff, curr_diff, case_delta)
CompareSummaries(prev_summary, curr_summary) ==
    LET prev_parity == prev_summary.estimated_parity
        curr_parity == curr_summary.estimated_parity
        delta == RSub(curr_parity, prev_parity)
        prev_cases == Get(prev_summary, "case_diffs", EmptyDict)
        curr_cases == Get(curr_summary, "case_diffs", EmptyDict)
        changes == {<<id, CaseDiff(prev_cases, id), CaseDiff(curr_cases, id),
                      CaseDiff(curr_cases, id) - CaseDiff(prev_cases, id)>> :
                       id \in DOMAIN prev_cases \cup DOMAIN curr_cases}
    IN [previous |-> prev_parity, current |-> curr_parity, change |-> delta,
        status |-> IF delta[1] > 0 THEN "IMPROVED"
                   ELSE IF delta[1] < 0 THEN "REGRESSED" ELSE "UNCHANGED",
        significant_changes |-> {c \in changes : Significant(c[4])}]

\* main(): what is printed after archive_run returned run_dir: the comparison
\* when there is a previous run and both summary files exist
TrendOf(run_dir) ==
    LET prev_run_id == get_previous_run(run_dir.entries, run_dir.name)
    IN IF prev_run_id = 0 THEN EmptyDict
       ELSE LET prev_file == run_dir.entries[prev_run_id]
                curr_file == run_dir.entries[run_dir.name]
            IN IF prev_file.kind # "missing" /\ curr_file.kind # "missing"
               THEN CompareSummaries(prev_file.data, curr_file.data)
               ELSE EmptyDict

\* mutant: a run whose archive step failed exits with status 1
RunCompleteExitFailsOnArchive(archived) == IF archived THEN 0 ELSE 1

\* main(): "Run complete!" and the end of main(), whatever the archive step did
RunCompleteExit(archived) == 0

\* main(): "if auto_archive:" down to "Run complete!"
ArchiveRun ==
    /\ base_pc = "archive"
    /\ IF ~auto_archive
       THEN /\ base_exit' = RunCompleteExit(TRUE)
            /\ UNCHANGED <<history_dir, archive_status, trend>>
       ELSE LET run_dir == archive_run(report_file, history_dir)
            IN IF run_dir # PyNone
               THEN /\ history_dir' = [history_dir EXCEPT !.entries = run_dir.entries]
                    /\ archive_status' = "Archived to"
                    /\ trend' = TrendOf(run_dir)
                    /\ base_exit' = RunCompleteExit(TRUE)
               ELSE /\ archive_status' = "Failed to archive run"
                    /\ base_exit' = RunCompleteExit(FALSE)
                    /\ UNCHANGED <<history_dir, trend>>
    /\ base_pc' = "done"
    /\ UNCHANGED <<gateArgs, report_file, gateLocals, builtins, websuite, builtin_results,
                   websuite_results, metrics, total_clusters, workorders_created,
                   auto_archive, packets_created,
                   testVars, results_file, extractVars, layoutVars, runVars>>

BaselineNext ==
    \/ CaptureBuiltin \/ CaptureWebsuite \/ ComputeMetrics \/ SaveReport
    \/ GenerateWorkorders \/ GeneratePackets \/ ArchiveRun

\* ---- inputs of the baseline run
EstimatedDiffs == {10, 25, 40}

CaptureOutcomes ==
    {[success |-> FALSE, est |-> 100]}
        \cup {[success |-> TRUE, est |-> d] : d \in EstimatedDiffs}

\* n issues of one node type
Repeat(node_type, n) ==
    [i \in 1..n |-> [type |-> "zero_size", node_type |-> node_type, depth |-> 2]]

\* captures that differ in the issues of their layout statistics
IssueOutcomes ==
    {[success |-> FALSE, est |-> 100]}
        \cup {[success |-> TRUE, est |-> 40, issues |-> i] :
                i \in {Repeat("form_control", 10), Repeat("block", 1), Repeat("image", 11),
                       Repeat("text", 1) \o Repeat("image", 1)}}

\* a layout tree with boxes without area, of the given types, two levels below
\* the root
TreeWithZeroSized(types) ==
    LET sized == [x |-> 8, y |-> 0, width |-> 10, height |-> 10]
        empty == [x |-> 0, y |-> 0, width |-> 0, height |-> 10]
    IN [type |-> "block", rect |-> sized,
        children |-> <<[type |-> "block", rect |-> sized,
                        children |-> [i \in DOMAIN types |->
                                        [type |-> types[i], rect |-> empty,
                                         children |-> <<>>]]]>>]

\* captures without layout statistics whose layout file main() analyzes
AnalyzedOutcomes ==
    {[success |-> TRUE, est |-> 40, layout_file |-> JsonFile([root |-> TreeWithZeroSized(ts)])] :
        ts \in {<<"text", "image">>, <<"text", "text", "form_control">>, <<"inline">>}}

\* a capture that succeeds and leaves a layout file that does not parse
MalformedLayout == [success |-> TRUE, est |-> 0, layout_file |-> InvalidFile]

\* captures that fail one way or another, next to one that works
FallibleOutcomes ==
    {[success |-> FALSE, est |-> 100], [success |-> TRUE, est |-> 40], MalformedLayout}

\* summaries of an earlier run: its parity estimate and its diff per case
PrevSummaries ==
    {[estimated_parity |-> p, case_diffs |-> c] :
        p \in {RInt(60), Rat(123, 2)},
        c \in {EmptyDict,
               (<<"builtin", 1>> :> [diff_pct |-> 35]),
               (<<"builtin", 1>> :> [diff_pct |-> 44]) @@ (<<"builtin", 2>> :> [diff_pct |-> 45]),
               (<<"builtin", 1>> :> [diff_pct |-> 100]) @@ (<<"removed", 1>> :> [diff_pct |-> 95]),
               (<<"builtin", 1>> :> EmptyDict) @@ (<<"removed", 1>> :> [diff_pct |-> 96])}}
        \cup {[estimated_parity |-> RInt(60)]}

\* parity-history/ before the run: not writable, empty, or holding earlier
\* entries, the last of them with or without its summary file
HistoryDirs ==
    {[writable |-> FALSE, entries |-> <<>>], [writable |-> TRUE, entries |-> <<>>],
     [writable |-> TRUE, entries |-> <<MissingFile>>]}
        \cup {[writable |-> TRUE, entries |-> <<JsonFile(p)>>] : p \in PrevSummaries}
        \cup {[writable |-> TRUE,
                entries |-> <<JsonFile([estimated_parity |-> RInt(0)]), JsonFile(p)>>] :
                  p \in {q \in PrevSummaries : "case_diffs" \notin DOMAIN q}}

Cases(group, outcomes) ==
    [i \in DOMAIN outcomes |-> [case_id |-> <<group, i>>, capture |-> outcomes[i]]]

\* any case lists within the bounds, or the shipped lists with every case of a
\* group behaving alike, or built-in cases with issues in their layouts
InitBaseline ==
    /\ \/ \E bo \in SeqsUpTo(CaptureOutcomes, MaxBuiltins),
             wo \in SeqsUpTo(CaptureOutcomes, MaxWebsuite) :
            /\ builtins = Cases("builtin", bo)
            /\ websuite = Cases("websuite", wo)
            /\ auto_archive = FALSE
            /\ history_dir = [writable |-> FALSE, entries |-> <<>>]
       \/ \E b \in CaptureOutcomes, w \in CaptureOutcomes :
            /\ builtins = Cases("builtin", [i \in 1..NumBuiltins |-> b])
            /\ websuite = Cases("websuite", [i \in 1..NumWebsuite |-> w])
            /\ auto_archive = FALSE
            /\ history_dir = [writable |-> FALSE, entries |-> <<>>]
       \/ \E bo \in SeqsUpTo(IssueOutcomes \cup AnalyzedOutcomes, MaxBuiltins) :
            /\ builtins = Cases("builtin", bo)
            /\ websuite = <<>>
            /\ auto_archive = FALSE
            /\ history_dir = [writable |-> FALSE, entries |-> <<>>]
       \/ \E bo \in SeqsUpTo(FallibleOutcomes, MaxBuiltins), w \in FallibleOutcomes :
            /\ builtins = Cases("builtin", bo)
            /\ websuite \in {<<>>, Cases("websuite", <<w>>)}
            /\ auto_archive = TRUE
            /\ history_dir \in HistoryDirs
    /\ base_pc = LoopPc(0, 0)
    /\ base_exit = -1
    /\ packets_created = <<>>
    /\ archive_status = ""
    /\ trend = EmptyDict
    /\ builtin_results = <<>>
    /\ websuite_results = <<>>
    /\ metrics = EmptyDict
    /\ total_clusters = EmptyDict
    /\ workorders_created = <<>>
    /\ report_file = MissingFile
    /\ minimum_parity \in MinimumParities
    /\ previous_path = FALSE
    /\ previous_file = MissingFile
    /\ regression_threshold = NoThreshold
    /\ GateLocalsInit
    /\ TestIdle
    /\ LayoutIdle
    /\ RunIdle

\* the baseline run, then the gate on the report it wrote
SpecBaseline == InitBaseline /\ [][BaselineNext \/ GateNext]_vars

(***************************************************************************)
(* Properties of the gate (SpecGate).                                      *)
(***************************************************************************)
\* the report file holds a non-empty JSON object
ReportLoads(file) == file.kind = "json" /\ DOMAIN file.data # {}

\* tier_b_weighted_mean as the file states it, 100 when it states none
FileWeightedMean(file) ==
    Get(Get(file.data, "metrics", EmptyDict), "tier_b_weighted_mean", RInt(100))

\* 100 - weighted mean >= minimum, on the numbers of the file
FileParityMeetsMinimum ==
    LET wm == FileWeightedMean(report_file)
    IN (100 - minimum_parity) * wm[2] >= wm[1]

\* C1: the gate prints GATE: PASSED and exits 0 if and only if the parity
\* 100 - metrics.tier_b_weighted_mean of the report it loaded is >= the minimum
\* parity and the list of detected regressions is empty; in every other case it
\* exits 1. Parity equal to the minimum passes.
C1_GatePassesIffParityAndNoRegressions ==
    gate_pc = "exited" =>
        LET ok == /\ ReportLoads(report_file)
                  /\ FileParityMeetsMinimum
                  /\ regressions = <<>>
        IN /\ ok <=> (gate_output = "GATE: PASSED" /\ exit_code = 0)
           /\ ~ok => exit_code = 1
           /\ exit_code = 0 => gate_output = "GATE: PASSED"

\* the gate passed a report whose parity equals the minimum
C1_Witness ==
    /\ gate_pc = "exited"
    /\ gate_output = "GATE: PASSED"
    /\ parity = RInt(minimum_parity)
    /\ minimum_parity > 0

\* the cases of a report file, as check_regressions keys them
FileCases(file) == Range(DictKeys(AllResults(file.data)))

\* some case in both reports has current_diff - previous_diff > threshold
RegressedCaseInBoth ==
    \E k \in FileCases(report_file) \cap FileCases(previous_file) :
        DictValue(AllResults(report_file.data), k)
            - DictValue(AllResults(previous_file.data), k) > regression_threshold.value

\* C2: whenever a previous report and a regression threshold are supplied, for
\* every threshold value (0 included), the gate fails if some case present in
\* both reports has current_diff - previous_diff > threshold.
C2_RegressionFailsGate ==
    (/\ gate_pc = "exited"
     /\ previous_path
     /\ regression_threshold.given
     /\ ReportLoads(report_file)
     /\ ReportLoads(previous_file)
     /\ RegressedCaseInBoth)
        => (exit_code = 1 /\ gate_output = "GATE: FAILED")

\* the regression list holds no case that the previous report lacks
NoNewCaseReported ==
    \A i \in DOMAIN regressions : regressions[i].case_id \in FileCases(previous_file)

\* C3 as claimed: for every threshold that can be passed, a case absent from the
\* previous report is never in the regression list.
C3_NewCaseNeverRegression ==
    gate_pc \in {"regressed", "exited"} => NoNewCaseReported

\* C3 amended: for every threshold >= 0, a case absent from the previous report
\* is never in the regression list (its previous diff is taken as 100, and no
\* current diff in 0..100 exceeds it by more than the threshold).
C3_NewCaseNeverRegressionNonNeg ==
    (gate_pc \in {"regressed", "exited"} /\ regression_threshold.value >= 0)
        => NoNewCaseReported

\* the regression check ran with a positive threshold on a report that holds a
\* case the previous report lacks, and reported another case
C3_Witness ==
    /\ gate_pc = "regressed"
    /\ RegressionRequested(regression_threshold, previous_path)
    /\ regression_threshold.value > 0
    /\ ReportLoads(previous_file)
    /\ FileCases(report_file) \ FileCases(previous_file) # {}
    /\ regressions # <<>>

\* C4: if the current report file is missing or is not valid JSON, the gate
\* exits non-zero before computing parity and never reaches GATE: PASSED.
C4_BadReportExitsBeforeParity ==
    report_file.kind \in {"missing", "invalid"} =>
        /\ gate_pc \in {"start", "exited"}
        /\ gate_pc = "exited" => exit_code = 1
        /\ gate_output = ""
        /\ exit_code # 0

\* the gate has exited on a missing or invalid report
C4_Witness ==
    /\ report_file.kind \in {"missing", "invalid"}
    /\ gate_pc = "exited"

\* C5: if regression checking is requested (previous path and threshold both
\* given) and the previous report is missing or not valid JSON, the gate does
\* not report GATE: PASSED / exit 0.
C5_BadPreviousNeverPasses ==
    (/\ gate_pc = "exited"
     /\ previous_path
     /\ regression_threshold.given
     /\ previous_file.kind \in {"missing", "invalid"})
        => (gate_output # "GATE: PASSED" /\ exit_code # 0)

\* the report file parses and its metrics hold no tier_b_weighted_mean
NoWeightedMean ==
    /\ report_file.kind = "json"
    /\ "tier_b_weighted_mean" \notin DOMAIN Get(report_file.data, "metrics", EmptyDict)

\* C30: on a report that parses but has no metrics.tier_b_weighted_mean the gate
\* computes parity 0 and, for every minimum parity > 0, ends with exit code 1 and
\* never prints GATE: PASSED.
C30_MissingMetricsNeverPass ==
    NoWeightedMean =>
        /\ gate_pc \in {"checked", "regressed"} => parity = RInt(0)
        /\ (gate_pc = "exited" /\ minimum_parity > 0) =>
              /\ exit_code = 1
              /\ gate_output # "GATE: PASSED"
              /\ gate_output = "GATE: FAILED" => (parity = RInt(0) /\ ~parity_passed)

\* a report with results and metrics but no weighted mean fails a minimum of 1
\* on parity alone
C30_Witness ==
    /\ NoWeightedMean
    /\ "metrics" \in DOMAIN report_file.data
    /\ AllResults(report_file.data) # <<>>
    /\ minimum_parity = 1
    /\ gate_pc = "exited"
    /\ gate_output = "GATE: FAILED"
    /\ parity = RInt(0)
    /\ regressions = <<>>

(***************************************************************************)
(* Properties of the baseline run (SpecBaseline).                          *)
(***************************************************************************)
MetricsComputed == base_pc \in {"report", "workorders", "packets", "archive", "done"}

ParityComputed == gate_pc \in {"checked", "regressed"} \/ gate_output # ""

\* the run has 5 built-in cases each at diff 10 and 8 websuite cases each at 40
Scenario5x10And8x40 ==
    /\ Len(builtins) = 5
    /\ Len(websuite) = 8
    /\ \A i \in DOMAIN builtins : builtins[i].capture = [success |-> TRUE, est |-> 10]
    /\ \A i \in DOMAIN websuite : websuite[i].capture = [success |-> TRUE, est |-> 40]

\* C6: for 5 built-in cases at diff 10 and 8 websuite cases at diff 40 the
\* metrics hold group pass rates 1.0 and 0.0, tier_a_pass_rate 0.6 and
\* tier_b_weighted_mean 22; the gate computes parity 78 and fails with minimum 80.
C6_EndToEndScenario ==
    Scenario5x10And8x40 =>
        /\ MetricsComputed =>
             /\ metrics.tier_a_builtin_pass = <<1, 1>>
             /\ metrics.tier_a_websuite_pass = <<0, 1>>
             /\ metrics.tier_a_pass_rate = <<3, 5>>
             /\ metrics.tier_b_weighted_mean = <<22, 1>>
        /\ ParityComputed => parity = <<78, 1>>
        /\ (gate_pc = "exited" /\ minimum_parity = 80)
             => (gate_output = "GATE: FAILED" /\ exit_code = 1)

\* the gate has given its verdict on the scenario with minimum parity 80
C6_Witness ==
    /\ Scenario5x10And8x40
    /\ minimum_parity = 80
    /\ gate_pc = "exited"
    /\ gate_output # ""

\* number of results of a list whose diff is <= 25
PassingCases(results) ==
    Cardinality({i \in DOMAIN results : results[i].estimated_diff_pct <= 25})

\* C7: tier_a_pass_rate = 0.60 x (fraction of built-in cases with diff <= 25)
\* + 0.40 x (fraction of websuite cases with diff <= 25), a diff of exactly 25
\* passing, and it lies between 0 and 1. (The fraction of an empty list is 0.)
C7_TierAPassRate ==
    MetricsComputed =>
        LET nb == Max(1, Len(builtin_results))
            nw == Max(1, Len(websuite_results))
            pb == PassingCases(builtin_results)
            pw == PassingCases(websuite_results)
            rate == metrics.tier_a_pass_rate
        IN /\ rate[2] > 0
           /\ rate[1] * (5 * nb * nw) = (3 * pb * nw + 2 * pw * nb) * rate[2]
           /\ 0 <= rate[1]
           /\ rate[1] <= rate[2]

\* metrics over lists in which a built-in case sits exactly at 25 and passes,
\* and a websuite case fails
C7_Witness ==
    /\ MetricsComputed
    /\ \E i \in DOMAIN builtin_results : builtin_results[i].estimated_diff_pct = 25
    /\ \E i \in DOMAIN websuite_results : websuite_results[i].estimated_diff_pct > 25
    /\ metrics.tier_a_builtin_pass = <<1, 1>>

AllDiffs == get_diffs(builtin_results \o websuite_results)

\* the k-th smallest value of a non-empty sequence of numbers
KthSmallest(d, k) ==
    CHOOSE v \in Range(d) :
        /\ Cardinality({i \in DOMAIN d : d[i] < v}) < k
        /\ k <= Cardinality({i \in DOMAIN d : d[i] <= v})

\* the median: the middle value, or the mean of the two middle values
TrueMedian(d) ==
    LET n == Len(d)
    IN IF n % 2 = 1 THEN RInt(KthSmallest(d, (n + 1) \div 2))
       ELSE Rat(KthSmallest(d, n \div 2) + KthSmallest(d, (n \div 2) + 1), 2)

\* C8: tier_b_median_diff is the unweighted median of the diffs of all cases of
\* both groups, for every number of cases (odd or even).
C8_MedianOfAllCases ==
    (MetricsComputed /\ Len(AllDiffs) >= 1)
        => RInt(metrics.tier_b_median_diff) = TrueMedian(AllDiffs)

\* the original ordering: built-ins in list order, then websuite in list order
OriginalOrder == Tagged(builtin_results, "builtin") \o Tagged(websuite_results, "websuite")

\* case i ranks before case j: larger diff, or equal diff and earlier in the
\* original ordering
RanksBefore(i, j) ==
    LET di == OriginalOrder[i][1].estimated_diff_pct
        dj == OriginalOrder[j][1].estimated_diff_pct
    IN di > dj \/ (di = dj /\ i < j)

\* C9: worst_3_cases holds the min(3, number of cases) cases with the largest
\* diffs in descending order; among equal diffs the case earlier in the original
\* ordering comes first.
C9_WorstThree ==
    MetricsComputed =>
        LET w == metrics.worst_3_cases
            n == Len(OriginalOrder)
        IN /\ Len(w) = Min(3, n)
           /\ \A j \in DOMAIN w :
                \E i \in DOMAIN OriginalOrder :
                    /\ Cardinality({k \in DOMAIN OriginalOrder : RanksBefore(k, i)}) = j - 1
                    /\ w[j].case_id = OriginalOrder[i][1].case_id
                    /\ w[j].type = OriginalOrder[i][2]
                    /\ w[j].diff_pct = OriginalOrder[i][1].estimated_diff_pct

\* more than three cases, a tie inside the worst three that spans both groups,
\* and a case left out that ties with the third
C9_Witness ==
    /\ MetricsComputed
    /\ Len(OriginalOrder) > 3
    /\ Len(metrics.worst_3_cases) = 3
    /\ metrics.worst_3_cases[2].diff_pct = metrics.worst_3_cases[3].diff_pct
    /\ metrics.worst_3_cases[2].type = "builtin"
    /\ metrics.worst_3_cases[3].type = "websuite"
    /\ websuite_results[Len(websuite_results)].estimated_diff_pct
         = metrics.worst_3_cases[3].diff_pct
    /\ websuite_results[Len(websuite_results)].case_id # metrics.worst_3_cases[3].case_id

\* main() has returned from generate_workorders
WorkordersGenerated == base_pc = "done"

\* the per-category work orders of the list, and its top-failures work orders
CategoryOrders == SelectSeq(workorders_created, LAMBDA wo : "cluster" \in DOMAIN wo)

TopFailureOrders == SelectSeq(workorders_created, LAMBDA wo : "cluster" \notin DOMAIN wo)

\* C18: a per-category work order has priority high iff its issue count is > 10
\* and medium otherwise (exactly 10 gives medium); the top-failures work order
\* exists, with priority critical, exactly when there are worst cases.
C18_WorkorderPriority ==
    WorkordersGenerated =>
        /\ \A i \in DOMAIN CategoryOrders :
             LET wo == CategoryOrders[i]
             IN /\ wo.issue_count = total_clusters[wo.cluster]
                /\ wo.priority = (IF wo.issue_count > 10 THEN "high" ELSE "medium")
        /\ \A i \in DOMAIN TopFailureOrders : TopFailureOrders[i].priority = "critical"
        /\ Len(TopFailureOrders) = (IF metrics.worst_3_cases # <<>> THEN 1 ELSE 0)
        /\ (metrics.worst_3_cases # <<>>) <=> (builtin_results \o websuite_results # <<>>)

\* a category of exactly 10 issues (medium) beside one of 11 (high), and the
\* top-failures work order
C18_Witness ==
    /\ WorkordersGenerated
    /\ \E i \in DOMAIN CategoryOrders :
         CategoryOrders[i].issue_count = 10 /\ CategoryOrders[i].priority = "medium"
    /\ \E i \in DOMAIN CategoryOrders :
         CategoryOrders[i].issue_count = 11 /\ CategoryOrders[i].priority = "high"
    /\ Len(TopFailureOrders) = 1

\* position of a category in the fixed category order
ClusterPos(c) == CHOOSE i \in DOMAIN ClusterOrder : ClusterOrder[i] = c

NonEmptyCategories == {c \in DOMAIN total_clusters : total_clusters[c] # 0}

\* C19: the returned list holds one work order per category with a non-zero count
\* and none for a count of 0, in descending order of count with ties in the fixed
\* category order, then the top-failures order if there are worst cases.
C19_OneWorkorderPerCategory ==
    WorkordersGenerated =>
        LET n == Len(CategoryOrders)
        IN /\ {CategoryOrders[i].cluster : i \in 1..n} = NonEmptyCategories
           /\ n = Cardinality(NonEmptyCategories)
           /\ \A i, j \in 1..n :
                i < j =>
                  LET ci == CategoryOrders[i].cluster
                      cj == CategoryOrders[j].cluster
                  IN \/ total_clusters[ci] > total_clusters[cj]
                     \/ /\ total_clusters[ci] = total_clusters[cj]
                        /\ ClusterPos(ci) < ClusterPos(cj)
           /\ SubSeq(workorders_created, 1, n) = CategoryOrders
           /\ Len(workorders_created)
                = n + (IF builtin_results \o websuite_results # <<>> THEN 1 ELSE 0)

\* three categories tie at one issue, paint has none, and there are worst cases
C19_Witness ==
    /\ WorkordersGenerated
    /\ total_clusters = [sizing_layout |-> 1, paint |-> 0, text |-> 1, images |-> 1]
    /\ Len(workorders_created) = 4
    /\ workorders_created[4].priority = "critical"

(***************************************************************************)
(* parity_test.py.  Diff percentages of the test runner are counted in     *)
(* twentieths of a percent (Pct(1) = 20), which keeps the median of an     *)
(* even number of runs whole for diffs given to one decimal place.         *)
(***************************************************************************)
Pct(p) == p * 20

THRESHOLDS ==
    [layout_structure |-> Pct(5), solid_backgrounds |-> Pct(8),
     images_replaced |-> Pct(10), gradients_effects |-> Pct(15),
     form_controls |-> Pct(12), text_rendering |-> Pct(20),
     sticky_scroll |-> Pct(25), default |-> Pct(15)]

\* mutant: the image rule is tried before the form rule
get_threshold_image_first(kw) ==
    IF "image" \in kw \/ "gallery" \in kw THEN THRESHOLDS.images_replaced
    ELSE IF "form" \in kw THEN THRESHOLDS.form_controls
    ELSE IF "gradient" \in kw THEN THRESHOLDS.gradients_effects
    ELSE IF "sticky" \in kw \/ "scroll" \in kw THEN THRESHOLDS.sticky_scroll
    ELSE IF "typography" \in kw \/ "text" \in kw THEN THRESHOLDS.text_rendering
    ELSE THRESHOLDS.default

\* get_threshold(case_id); kw is the set of the keywords that occur in case_id
get_threshold(kw) ==
    IF "form" \in kw THEN THRESHOLDS.form_controls
    ELSE IF "image" \in kw \/ "gallery" \in kw THEN THRESHOLDS.images_replaced
    ELSE IF "gradient" \in kw THEN THRESHOLDS.gradients_effects
    ELSE IF "sticky" \in kw \/ "scroll" \in kw THEN THRESHOLDS.sticky_scroll
    ELSE IF "typography" \in kw \/ "text" \in kw THEN THRESHOLDS.text_rendering
    ELSE THRESHOLDS.default

\* statistics.median(run_diffs)
Median(d) ==
    LET sorted == SortAsc(d)
        n == Len(sorted)
    IN IF n % 2 = 1 THEN sorted[(n + 1) \div 2]
       ELSE (sorted[n \div 2] + sorted[(n \div 2) + 1]) \div 2

\* min(run_diffs), max(run_diffs)
MinOf(d) == CHOOSE v \in Range(d) : \A u \in Range(d) : v <= u

MaxOf(d) == CHOOSE v \in Range(d) : \A u \in Range(d) : v >= u

\* run_test: the state of the loop "for run_idx in range(iterations)" before
\* its first run
LoopStart == [error |-> "", run_diffs |-> <<>>, last_pixel_result |-> PyNone]

\* mutant: a failed capture is skipped and the loop goes on
RunOnceSkipsFailedCapture(st, run) ==
    IF ~run.capture_ok
    THEN st
    ELSE IF Get(run.pixel, "error", "") # ""
    THEN [st EXCEPT !.error = "Pixel compare error", !.last_pixel_result = run.pixel]
    ELSE [st EXCEPT !.run_diffs = Append(@, Get(run.pixel, "diffPercent", Pct(100))),
                    !.last_pixel_result = run.pixel]

\* run_test: one run of the loop. `run` is what the run meets: the capture
\* succeeds or not, and the result of compare_pixels.
RunOnce(st, run) ==
    IF ~run.capture_ok
    THEN [st EXCEPT !.error = "Capture failed"]
    ELSE IF Get(run.pixel, "error", "") # ""
    THEN [st EXCEPT !.error = "Pixel compare error", !.last_pixel_result = run.pixel]
    ELSE [st EXCEPT !.run_diffs = Append(@, Get(run.pixel, "diffPercent", Pct(100))),
                    !.last_pixel_result = run.pixel]

\* run_test: the loop over the first n runs; a run that sets the error returns
RECURSIVE RunLoop(_, _)
RunLoop(runs, n) ==
    IF n = 0 THEN LoopStart
    ELSE LET st == RunLoop(runs, n - 1)
         IN IF st.error # "" THEN st ELSE RunOnce(st, runs[n])

\* e.get("selector", "")
SelectorOf(e) == Get(e, "selector", "")

\* keys of the dict {selector: e for e in elements}, in insertion order
RECURSIVE SelectorKeys(_)
SelectorKeys(elements) ==
    IF elements = <<>> THEN <<>>
    ELSE LET ks == SelectorKeys(Front(elements))
             k == SelectorOf(elements[Len(elements)])
         IN IF k \in Range(ks) THEN ks ELSE Append(ks, k)

\* value of that dict at key k: the last element with the selector wins
SelectorValue(elements, k) ==
    elements[CHOOSE i \in DOMAIN elements :
                 /\ SelectorOf(elements[i]) = k
                 /\ \A j \in DOMAIN elements : SelectorOf(elements[j]) = k => j <= i]

\* the selectors of rustkit_map whose element is truthy: "if not rustkit_el" is
\* taken for a selector that is not a key and for one whose element is {}
Counterparts(rustkit_elements) ==
    {k \in Range(SelectorKeys(rustkit_elements)) :
        DOMAIN SelectorValue(rustkit_elements, k) # {}}

\* the loop "for selector, chrome_el in chrome_map.items()": diffs[k] is the list
\* of differing properties of a selector that has a counterpart
RECURSIVE Tally(_, _, _)
Tally(keys, counterparts, diffs) ==
    IF keys = <<>> THEN [matched |-> 0, mismatched |-> 0, differences |-> <<>>]
    ELSE LET t == Tally(Front(keys), counterparts, diffs)
             k == keys[Len(keys)]
         IN IF k \notin counterparts THEN [t EXCEPT !.mismatched = @ + 1]
            ELSE IF diffs[k] # <<>>
            THEN [t EXCEPT !.mismatched = @ + 1,
                           !.differences = Append(@, [selector |-> k, diffs |-> diffs[k]])]
            ELSE [t EXCEPT !.matched = @ + 1]

\* differences[:10]
Top10(t) == [t EXCEPT !.differences = SubSeq(@, 1, Min(10, Len(@)))]

\* the properties of a list on which two elements differ, in list order
RECURSIVE PropDiffs(_, _, _)
PropDiffs(props, cv, rv) ==
    IF props = <<>> THEN <<>>
    ELSE LET prop == props[Len(props)]
             rest == PropDiffs(Front(props), cv, rv)
         IN IF cv[prop] # rv[prop]
            THEN Append(rest, [prop |-> prop, chrome |-> cv[prop], rustkit |-> rv[prop]])
            ELSE rest

key_props == <<"display", "width", "height", "margin-top", "padding-top", "position">>

\* el.get("styles", {}).get(prop) for each of key_props
StyleValues(el) ==
    [i \in DOMAIN key_props |-> Get(Get(el, "styles", EmptyDict), key_props[i], PyNone)]

\* the baseline selectors that have a counterpart in the capture
CommonSelectors(chrome_elements, rustkit_elements) ==
    Range(SelectorKeys(chrome_elements)) \cap Counterparts(rustkit_elements)

\* the comparison proper of compare_styles / compare_rects, once both files are
\* read; diffs[k] is the list of differing properties of a common selector k
CompareElements(chrome_elements, rustkit_elements, diffs) ==
    Top10(Tally(SelectorKeys(chrome_elements), Counterparts(rustkit_elements), diffs))

StyleDiffs(chrome_el, rustkit_el) ==
    LET d == PropDiffs([i \in DOMAIN key_props |-> i], StyleValues(chrome_el),
                       StyleValues(rustkit_el))
    IN [i \in DOMAIN d |-> [d[i] EXCEPT !.prop = key_props[@]]]

\* a file that json.loads cannot read, or an element of the baseline list without
\* a "selector" key: the exception is caught and reported
CompareRaises(chrome, rustkit) ==
    \/ chrome.kind = "invalid"
    \/ rustkit.kind = "invalid"
    \/ \E i \in DOMAIN Get(chrome.data, "elements", <<>>) :
          "selector" \notin DOMAIN chrome.data.elements[i]

\* compare_styles(chrome_styles, rustkit_styles)
compare_styles(chrome, rustkit) ==
    IF chrome.kind = "missing" THEN [error |-> "Chrome styles not found"]
    ELSE IF rustkit.kind = "missing"
    THEN [error |-> "RustKit styles not found", matched |-> 0, mismatched |-> 0]
    ELSE IF CompareRaises(chrome, rustkit) THEN [error |-> "exception"]
    ELSE LET chrome_elements == Get(chrome.data, "elements", <<>>)
             rustkit_elements == Get(rustkit.data, "elements", <<>>)
         IN CompareElements(chrome_elements, rustkit_elements,
                [k \in CommonSelectors(chrome_elements, rustkit_elements) |->
                    StyleDiffs(SelectorValue(chrome_elements, k),
                       SelectorValue(rustkit_elements, k))])

RectTolerance == 5

rect_props == <<"width", "height", "x", "y">>

\* abs(cv - rv) > tolerance
OverTolerance(cv, rv) == Abs(cv - rv) > RectTolerance

RECURSIVE RectPropDiffs(_, _, _)
RectPropDiffs(props, cr, rr) ==
    IF props = <<>> THEN <<>>
    ELSE LET prop == props[Len(props)]
             cv == Get(cr, prop, 0)
             rv == Get(rr, prop, 0)
             rest == RectPropDiffs(Front(props), cr, rr)
         IN IF OverTolerance(cv, rv)
            THEN Append(rest, [prop |-> prop, chrome |-> cv, rustkit |-> rv])
            ELSE rest

\* cr = chrome_el.get("rect", {}); rr = rustkit_el.get("rect",
\*     rustkit_el.get("content_rect", {}))
RectDiffs(chrome_el, rustkit_el) ==
    RectPropDiffs(rect_props, Get(chrome_el, "rect", EmptyDict),
                  Get(rustkit_el, "rect", Get(rustkit_el, "content_rect", EmptyDict)))

\* compare_rects(chrome_rects, rustkit_rects)
compare_rects(chrome, rustkit) ==
    IF chrome.kind = "missing" THEN [error |-> "Chrome rects not found"]
    ELSE IF rustkit.kind = "missing"
    THEN [error |-> "RustKit rects not found", matched |-> 0, mismatched |-> 0]
    ELSE IF CompareRaises(chrome, rustkit) THEN [error |-> "exception"]
    ELSE LET chrome_elements == Get(chrome.data, "elements", <<>>)
             rustkit_elements == Get(rustkit.data, "elements", <<>>)
         IN CompareElements(chrome_elements, rustkit_elements,
                [k \in CommonSelectors(chrome_elements, rustkit_elements) |->
                    RectDiffs(SelectorValue(chrome_elements, k),
                       SelectorValue(rustkit_elements, k))])

\* run_test: the result as first built
NewResult(case) ==
    [case_id |-> case.case_id, type |-> case.type,
     threshold |-> get_threshold(case.keywords), pixel |-> PyNone,
     styles |-> PyNone, rects |-> PyNone, passed |-> FALSE]

\* mutant: a variance equal to the ceiling is unstable
StabilityFieldsStrict(run_diffs, iters, maxvar) ==
    IF run_diffs = <<>> THEN EmptyDict
    ELSE [diff_pct_median |-> Median(run_diffs),
          diff_pct_min |-> MinOf(run_diffs),
          diff_pct_max |-> MaxOf(run_diffs),
          diff_pct_variance |-> MaxOf(run_diffs) - MinOf(run_diffs),
          stable |-> (iters >= 3) /\ (MaxOf(run_diffs) - MinOf(run_diffs) < maxvar)]

\* run_test: the stability fields, set when run_diffs is not empty
StabilityFields(run_diffs, iters, maxvar) ==
    IF run_diffs = <<>> THEN EmptyDict
    ELSE [diff_pct_median |-> Median(run_diffs),
          diff_pct_min |-> MinOf(run_diffs),
          diff_pct_max |-> MaxOf(run_diffs),
          diff_pct_variance |-> MaxOf(run_diffs) - MinOf(run_diffs),
          stable |-> (iters >= 3) /\ (MaxOf(run_diffs) - MinOf(run_diffs) <= maxvar)]

\* run_test: diff_pct = result.get("diff_pct_median",
\*     last_pixel_result.get("diffPercent", 100) if last_pixel_result else 100)
RepresentativeDiff(fields, last_pixel_result) ==
    IF "diff_pct_median" \in DOMAIN fields THEN fields.diff_pct_median
    ELSE IF last_pixel_result # PyNone /\ DOMAIN last_pixel_result # {}
    THEN Get(last_pixel_result, "diffPercent", Pct(100))
    ELSE Pct(100)

\* the file of the environment under a name; a file not named does not exist
EnvFile(env, name) == Get(env, name, MissingFile)

\* mutant: diff_pct < threshold
WithinThresholdStrict(diff_pct, threshold) == diff_pct < threshold

\* the test `diff_pct <= result["threshold"]`
WithinThreshold(diff_pct, threshold) == diff_pct <= threshold

\* run_test(case_id, html_path, width, height, case_type, iterations, max_variance)
\* env: whether the Chrome baseline exists, what each run meets, and the style
\* and rect snapshots of the baseline and of the capture
run_test(case, iters, maxvar, env) ==
    LET result == NewResult(case)
    IN IF ~env.baseline
       THEN ("error" :> "No Chrome baseline") @@ result
       ELSE LET st == RunLoop(env.runs, iters)
            IN IF st.error # ""
               THEN ("error" :> st.error) @@ result
               ELSE LET fields == StabilityFields(st.run_diffs, iters, maxvar)
                        diff_pct == RepresentativeDiff(fields, st.last_pixel_result)
                    IN [pixel_runs |-> st.run_diffs, diff_pct |-> diff_pct]
                         @@ fields
                         @@ [result EXCEPT
                               !.pixel = st.last_pixel_result,
                               !.styles = compare_styles(EnvFile(env, "chrome_styles"),
                                                         EnvFile(env, "rustkit_styles")),
                               !.rects = compare_rects(EnvFile(env, "chrome_rects"),
                                                       EnvFile(env, "rustkit_rects")),
                               !.passed = WithinThreshold(diff_pct, result.threshold)]

\* result.get("error") is set and not empty
HasError(r) == Get(r, "error", "") # ""

\* mutant: a missing diff_pct read as 0
TestDiffDefaultZero(r) == Get(r, "diff_pct", 0)

\* r.get("diff_pct", 100)
TestDiff(r) == Get(r, "diff_pct", Pct(100))

\* sorted(pairs, key = first component, reverse = True): stable, descending
RECURSIVE InsertKeyedDesc(_, _)
InsertKeyedDesc(s, x) ==
    IF s = <<>> THEN <<x>>
    ELSE IF s[Len(s)][1] >= x[1] THEN Append(s, x)
    ELSE Append(InsertKeyedDesc(Front(s), x), s[Len(s)])

RECURSIVE SortKeyedDesc(_)
SortKeyedDesc(s) ==
    IF s = <<>> THEN <<>> ELSE InsertKeyedDesc(SortKeyedDesc(Front(s)), s[Len(s)])

\* ---- what a run of a case can meet
\* compare_pixels: an error, an error with an empty message (the tool failed and
\* wrote nothing to stderr), or a diff
PixelResults ==
    {[error |-> "node failed"], [error |-> ""], [diffPercent |-> Pct(10)]}

RunOutcomes ==
    {[capture_ok |-> FALSE, pixel |-> EmptyDict]}
        \cup {[capture_ok |-> TRUE, pixel |-> p] : p \in PixelResults}

CaseEnvs(iters) ==
    {[baseline |-> FALSE, runs |-> <<>>]}
        \cup {[baseline |-> TRUE, runs |-> rs] : rs \in [1..iters -> RunOutcomes]}

\* main(): one iteration of "for case_id, ... in cases"
TestCase ==
    /\ test_pc = "cases"
    /\ Len(test_results) < Len(test_cases)
    /\ \E env \in CaseEnvs(iterations) :
         LET result == run_test(test_cases[Len(test_results) + 1], iterations,
                                max_variance, env)
         IN /\ test_results' = Append(test_results, result)
            /\ IF HasError(result)
               THEN test_failed' = test_failed + 1 /\ test_passed' = test_passed
               ELSE IF result.passed
               THEN test_passed' = test_passed + 1 /\ test_failed' = test_failed
               ELSE test_failed' = test_failed + 1 /\ test_passed' = test_passed
    /\ UNCHANGED <<gateArgs, report_file, gateLocals, baseVars, test_pc, iterations,
                   max_variance, threshold_override, test_cases, avg_diff, worst_cases, test_exit,
                   results_file, extractVars, layoutVars, runVars>>

\* main(): json.dump of the results to parity_test_results.json
SaveResults ==
    /\ test_pc = "cases"
    /\ Len(test_results) = Len(test_cases)
    /\ results_file' = JsonFile([iterations |-> iterations, max_variance |-> max_variance,
                                 passed |-> test_passed, failed |-> test_failed,
                                 results |-> test_results])
    /\ test_pc' = "summary"
    /\ UNCHANGED <<gateArgs, report_file, gateLocals, baseVars, iterations,
                   max_variance, threshold_override, test_cases, test_results, test_passed, test_failed,
                   avg_diff, worst_cases, test_exit, extractVars, layoutVars, runVars>>

\* main(): the average diff, the worst 3 cases and the exit code
Summary ==
    /\ test_pc = "summary"
    /\ avg_diff' =
         IF test_results = <<>> THEN PyNone
         ELSE [value |-> Rat(SumSeq([i \in DOMAIN test_results |-> TestDiff(test_results[i])]),
                             Len(test_results))]
    /\ LET sorted_results ==
               SortKeyedDesc([i \in DOMAIN test_results |->
                                 <<TestDiff(test_results[i]), test_results[i]>>])
       IN worst_cases' = [i \in 1..Min(3, Len(sorted_results)) |-> sorted_results[i][2].case_id]
    /\ test_exit' = IF test_failed = 0 THEN 0 ELSE 1
    /\ test_pc' = "exited"
    /\ UNCHANGED <<gateArgs, report_file, gateLocals, baseVars, iterations,
                   max_variance, threshold_override, test_cases, test_results, test_passed, test_failed,
                   results_file, extractVars, layoutVars, runVars>>

TestNext == TestCase \/ SaveResults \/ Summary

(***************************************************************************)
(* parity_test.py: main() on a single case (--case), with the call of      *)
(* run_test followed statement by statement.                               *)
(***************************************************************************)
MaxSelectors == 11  \* elements of a baseline snapshot

CurrentCase == test_cases[Len(test_results) + 1]

\* run_rustkit_capture: frame_path and layout_path of a capture; the directory is
\* OUTPUT_DIR / "captures" / case_id for every run of the case
CapturePaths(case_id, run_idx) ==
    {<<"captures", case_id, "frame.ppm">>, <<"captures", case_id, "layout.json">>}

\* the files after the renderer has written the paths in run run_idx
WriteFiles(files, paths, run_idx) ==
    [p \in DOMAIN files \cup paths |-> IF p \in paths THEN [run |-> run_idx] ELSE files[p]]

\* run_test: from the call to the baseline check
RunStart ==
    /\ test_pc = "cases"
    /\ Len(test_results) < Len(test_cases)
    /\ run_pc = "call"
    /\ LET result == NewResult(CurrentCase)
       IN IF ~run_env.baseline
          THEN /\ run_locals' = [LoopStart EXCEPT !.error = "No Chrome baseline"]
                                  @@ [result |-> ("error" :> "No Chrome baseline") @@ result,
                                      run_idx |-> 0]
               /\ run_pc' = "return"
          ELSE /\ run_locals' = LoopStart @@ [result |-> result, run_idx |-> 0]
               /\ run_pc' = "loop"
    /\ UNCHANGED <<gateArgs, report_file, gateLocals, baseVars, testVars, results_file,
                   extractVars, layoutVars, run_env, run_calls,
                   capture_files>>

\* run_test: one pass of "for run_idx in range(iterations)"
RunIteration ==
    /\ run_pc = "loop"
    /\ run_locals.run_idx < iterations
    /\ LET run == run_env.runs[run_locals.run_idx + 1]
           st == RunOnce([error |-> "", run_diffs |-> run_locals.run_diffs,
                          last_pixel_result |-> run_locals.last_pixel_result], run)
       IN /\ run_calls' = [run_calls EXCEPT !.capture = @ + 1,
                                            !.pixel = @ + (IF run.capture_ok THEN 1 ELSE 0)]
          /\ run_locals' =
               [run_locals EXCEPT
                  !.error = st.error,
                  !.run_diffs = st.run_diffs,
                  !.last_pixel_result = st.last_pixel_result,
                  !.run_idx = @ + 1,
                  !.result = IF st.error # "" THEN ("error" :> st.error) @@ @ ELSE @]
          /\ run_pc' = IF st.error # "" THEN "return" ELSE "loop"
          /\ capture_files' =
               IF run.capture_ok
               THEN WriteFiles(capture_files, CapturePaths(CurrentCase.case_id,
                                                           run_locals.run_idx),
                               run_locals.run_idx)
               ELSE capture_files
    /\ UNCHANGED <<gateArgs, report_file, gateLocals, baseVars, testVars, results_file,
                   extractVars, layoutVars, run_env>>

\* run_test: after the loop, pixel_runs, the stability fields and result["pixel"]
RunStability ==
    /\ run_pc = "loop"
    /\ run_locals.run_idx >= iterations
    /\ run_locals' =
         [run_locals EXCEPT
            !.result = [pixel_runs |-> run_locals.run_diffs]
                         @@ StabilityFields(run_locals.run_diffs, iterations, max_variance)
                         @@ [@ EXCEPT !.pixel = run_locals.last_pixel_result]]
    /\ run_pc' = "styles"
    /\ UNCHANGED <<gateArgs, report_file, gateLocals, baseVars, testVars, results_file,
                   extractVars, layoutVars, run_env, run_calls,
                   capture_files>>

\* run_test: result["styles"] = compare_styles(...)
RunStyles ==
    /\ run_pc = "styles"
    /\ run_locals' =
         [run_locals EXCEPT
            !.result.styles = compare_styles(EnvFile(run_env, "chrome_styles"),
                                             EnvFile(run_env, "rustkit_styles"))]
    /\ run_calls' = [run_calls EXCEPT !.styles = @ + 1]
    /\ run_pc' = "rects"
    /\ UNCHANGED <<gateArgs, report_file, gateLocals, baseVars, testVars, results_file,
                   extractVars, layoutVars, run_env, capture_files>>

\* run_test: result["rects"] = compare_rects(...)
RunRects ==
    /\ run_pc = "rects"
    /\ run_locals' =
         [run_locals EXCEPT
            !.result.rects = compare_rects(EnvFile(run_env, "chrome_rects"),
                                           EnvFile(run_env, "rustkit_rects"))]
    /\ run_calls' = [run_calls EXCEPT !.rects = @ + 1]
    /\ run_pc' = "verdict"
    /\ UNCHANGED <<gateArgs, report_file, gateLocals, baseVars, testVars, results_file,
                   extractVars, layoutVars, run_env, capture_files>>

\* run_test: diff_pct and passed
RunVerdict ==
    /\ run_pc = "verdict"
    /\ LET diff_pct == RepresentativeDiff(run_locals.result, run_locals.last_pixel_result)
       IN run_locals' =
            [run_locals EXCEPT
               !.result = [diff_pct |-> diff_pct]
                            @@ [@ EXCEPT !.passed =
                                  WithinThreshold(diff_pct, run_locals.result.threshold)]]
    /\ run_pc' = "return"
    /\ UNCHANGED <<gateArgs, report_file, gateLocals, baseVars, testVars, results_file,
                   extractVars, layoutVars, run_env, run_calls,
                   capture_files>>

\* main(): run_test has returned; results.append(result) and the counters
RunReturn ==
    /\ run_pc = "return"
    /\ LET result == run_locals.result
       IN /\ test_results' = Append(test_results, result)
          /\ IF HasError(result)
             THEN test_failed' = test_failed + 1 /\ test_passed' = test_passed
             ELSE IF result.passed
             THEN test_passed' = test_passed + 1 /\ test_failed' = test_failed
             ELSE test_failed' = test_failed + 1 /\ test_passed' = test_passed
    /\ run_pc' = "idle"
    /\ UNCHANGED <<gateArgs, report_file, gateLocals, baseVars, test_pc, iterations,
                   max_variance, threshold_override, test_cases, avg_diff, worst_cases, test_exit,
                   results_file, extractVars, layoutVars, run_env, run_locals, run_calls,
                   capture_files>>

RunTestNext ==
    \/ RunStart \/ RunIteration \/ RunStability \/ RunStyles \/ RunRects \/ RunVerdict
    \/ RunReturn \/ SaveResults \/ Summary

\* ---- inputs of the single-case run
\* the keywords get_threshold looks for
Keywords == {"form", "image", "gallery", "gradient", "sticky", "scroll", "typography", "text"}

\* compare_pixels results that differ by 0.10 and by 0.20 around the threshold
\* of an image case, and a result without diffPercent
FinePixelResults ==
    {[error |-> "node failed"], EmptyDict,
     [diffPercent |-> Pct(10) - 2], [diffPercent |-> Pct(10)], [diffPercent |-> Pct(10) + 2]}

FineRunOutcomes ==
    {[capture_ok |-> FALSE, pixel |-> EmptyDict]}
        \cup {[capture_ok |-> TRUE, pixel |-> p] : p \in FinePixelResults}

SelectorNames ==
    <<"s01", "s02", "s03", "s04", "s05", "s06", "s07", "s08", "s09", "s10", "s11", "s12",
      "s13", "s14">>

NumSelectors == Min(MaxSelectors, Len(SelectorNames))

ChromeStyleElement(sel) ==
    [selector |-> sel,
     styles |-> [display |-> [css |-> "block"], width |-> [css |-> "10px"]]]

\* the captured element of a selector: the same styles, or another display and no
\* width
RustkitStyleElement(sel, same) ==
    IF same THEN ChromeStyleElement(sel)
    ELSE [selector |-> sel, styles |-> [display |-> [css |-> "inline"]]]

ChromeRectElement(sel) ==
    [selector |-> sel, rect |-> [x |-> 0, y |-> 0, width |-> 100, height |-> 20]]

\* the captured element of a selector: within the tolerance (a width off by
\* exactly 5, under "content_rect"), or off by 6
RustkitRectElement(sel, same) ==
    IF same
    THEN [selector |-> sel, content_rect |-> [x |-> 0, y |-> 0, width |-> 105, height |-> 20]]
    ELSE [selector |-> sel, rect |-> [x |-> 0, y |-> 0, width |-> 106, height |-> 20]]

\* a snapshot pair: `status` gives, for each baseline selector in order, whether
\* the capture lacks it, differs on it or agrees on it; the capture may hold an
\* extra selector, and the baseline may name its first selector twice
Snapshots(status, extra, twice) ==
    LET n == Len(status)
        sels == SubSeq(SelectorNames, 1, n)
        dup == IF twice /\ n > 0 THEN <<1>> ELSE <<>>
        kept == SelectSeq([i \in 1..n |-> i], LAMBDA i : status[i] # "missing")
        more == IF extra THEN <<"extra">> ELSE <<>>
    IN [chrome_styles |-> JsonFile([elements |->
                            [i \in 1..n |-> ChromeStyleElement(sels[i])]
                              \o [i \in DOMAIN dup |-> ChromeStyleElement(sels[dup[i]])]]),
        rustkit_styles |-> JsonFile([elements |->
                            [i \in DOMAIN kept |->
                               RustkitStyleElement(sels[kept[i]], status[kept[i]] = "same")]
                              \o [i \in DOMAIN more |-> ChromeStyleElement(more[i])]]),
        chrome_rects |-> JsonFile([elements |->
                            [i \in 1..n |-> ChromeRectElement(sels[i])]
                              \o [i \in DOMAIN dup |-> ChromeRectElement(sels[dup[i]])]]),
        rustkit_rects |-> JsonFile([elements |->
                            [i \in DOMAIN kept |->
                               RustkitRectElement(sels[kept[i]], status[kept[i]] = "same")]
                              \o [i \in DOMAIN more |-> ChromeRectElement(more[i])]])]

\* a run of a kinds, then b kinds, then c kinds
Blocks(a, ka, b, kb, c, kc) ==
    [i \in 1..(a + b + c) |-> IF i <= a THEN ka ELSE IF i <= a + b THEN kb ELSE kc]

StatusLists ==
    {Blocks(a, "missing", b, "differs", c, "same") :
        a \in 0..NumSelectors, b \in 0..NumSelectors, c \in 0..1}
      \cup {Blocks(a, "same", b, "differs", c, "missing") :
              a \in 0..1, b \in 0..NumSelectors, c \in 0..1}

SnapshotSets ==
    {Snapshots(st, extra, twice) :
        st \in {s \in StatusLists : Len(s) <= NumSelectors}, extra \in BOOLEAN, twice \in BOOLEAN}
      \cup {[chrome_styles |-> c, rustkit_styles |-> r, chrome_rects |-> c, rustkit_rects |-> r] :
              c \in {MissingFile, InvalidFile, JsonFile(EmptyDict),
                     JsonFile([elements |-> <<[styles |-> EmptyDict]>>])},
              r \in {MissingFile, InvalidFile, JsonFile(EmptyDict)}}

\* the environments of run_test: no baseline; a baseline and runs of any outcome;
\* a baseline, one good run and snapshots to compare
RunEnvs(iters) ==
    {[baseline |-> FALSE, runs |-> <<>>]}
        \cup {[baseline |-> TRUE, runs |-> rs] : rs \in [1..iters -> FineRunOutcomes]}
        \cup (IF iters = 1
              THEN {[baseline |-> TRUE,
                     runs |-> <<[capture_ok |-> TRUE, pixel |-> [diffPercent |-> Pct(10)]]>>]
                      @@ snap : snap \in SnapshotSets}
              ELSE {})

(***************************************************************************)
(* extract_parity_metrics.py                                               *)
(***************************************************************************)
\* extract_metrics: the entry of one result
ExtractTest(result) ==
    LET threshold == Get(result, "threshold", Pct(15))
        pixel_data == Get(result, "pixel", EmptyDict)
        diff_percent == Get(pixel_data, "diffPercent", 0)
    IN [name |-> Get(result, "case_id", "unknown"), diff |-> diff_percent,
        threshold |-> threshold, passed |-> diff_percent <= threshold,
        type |-> Get(result, "type", "unknown")]

\* extract_metrics: result.get("pixel", {}) is None when the key holds null, and
\* None.get(...) raises AttributeError
ExtractRaises(result) == Get(result, "pixel", EmptyDict) = PyNone

\* max(tests, key = diff): the first of the largest
FirstMax(tests) ==
    LET i == CHOOSE i \in DOMAIN tests :
                 /\ \A j \in DOMAIN tests : tests[j].diff <= tests[i].diff
                 /\ \A j \in DOMAIN tests : tests[j].diff = tests[i].diff => i <= j
    IN tests[i]

\* extract_metrics(results), for results on which no entry raises
extract_metrics(data) ==
    LET rs == Get(data, "results", <<>>)
        tests == [i \in DOMAIN rs |-> ExtractTest(rs[i])]
        total == Len(tests)
        passed_count == Cardinality({i \in DOMAIN tests : tests[i].passed})
        worst == IF tests = <<>> THEN [name |-> "none", diff |-> 0] ELSE FirstMax(tests)
        sorted == SortKeyedDesc([i \in DOMAIN tests |-> <<tests[i].diff, tests[i]>>])
    IN [total |-> total, passed |-> passed_count, failed |-> total - passed_count,
        average_diff |-> IF total > 0
                         THEN Rat(SumSeq([i \in DOMAIN tests |-> tests[i].diff]), total)
                         ELSE RInt(0),
        worst_case |-> [name |-> worst.name, diff |-> worst.diff],
        tests |-> [i \in DOMAIN sorted |-> sorted[i][2]]]

\* main(): read the input, extract, write the output; exit 1 when the input is
\* missing, and by the uncaught exception when json.load or extract_metrics raises
ExtractMain ==
    /\ extract_pc = "start"
    /\ extract_results' = IF results_file.kind = "json" THEN results_file.data ELSE PyNone
    /\ IF results_file.kind # "json"
       THEN extracted' = PyNone /\ extract_exit' = 1
       ELSE IF \E i \in DOMAIN Get(results_file.data, "results", <<>>) :
                   ExtractRaises(results_file.data.results[i])
       THEN extracted' = PyNone /\ extract_exit' = 1
       ELSE extracted' = extract_metrics(results_file.data) /\ extract_exit' = 0
    /\ extract_pc' = "exited"
    /\ UNCHANGED <<gateArgs, report_file, gateLocals, baseVars, testVars, results_file,
                   layoutVars, runVars>>

\* ---- inputs of the test runner
DefaultMaxVariance == 2

TestCorpus ==
    <<[case_id |-> "new_tab", type |-> "builtins", keywords |-> {}],
      [case_id |-> "form-elements", type |-> "websuite", keywords |-> {"form"}],
      [case_id |-> "image-gallery", type |-> "websuite", keywords |-> {"image", "gallery"}],
      [case_id |-> "sticky-scroll", type |-> "websuite", keywords |-> {"sticky", "scroll"}]>>

\* no gate run and no baseline run take part
GateIdle ==
    /\ minimum_parity = 0
    /\ report_file = MissingFile
    /\ previous_path = FALSE
    /\ previous_file = MissingFile
    /\ regression_threshold = NoThreshold
    /\ gate_pc = "exited"
    /\ report = NoReport
    /\ parity = RInt(0)
    /\ parity_passed = FALSE
    /\ regressions = <<>>
    /\ gate_output = ""
    /\ exit_code = -1

InitTest ==
    /\ test_pc = "cases"
    /\ iterations \in 0..MaxIterations
    /\ max_variance = DefaultMaxVariance
    /\ threshold_override = PyNone
    /\ \E n \in 0..Min(MaxTestCases, Len(TestCorpus)) : test_cases = SubSeq(TestCorpus, 1, n)
    /\ test_results = <<>>
    /\ test_passed = 0
    /\ test_failed = 0
    /\ results_file = MissingFile
    /\ avg_diff = PyNone
    /\ worst_cases = <<>>
    /\ test_exit = -1
    /\ extract_pc = "start"
    /\ extract_results = PyNone
    /\ extracted = PyNone
    /\ extract_exit = -1
    /\ GateIdle
    /\ BaseIdle
    /\ LayoutIdle
    /\ RunIdle

\* a test-runner run, and a metrics extraction started at any moment
SpecTest == InitTest /\ [][TestNext \/ ExtractMain]_vars

\* one iteration of a capture loop, for anything the renderer can leave behind
InitLayout ==
    /\ layout_pc = "capture"
    /\ capture_env \in CaptureEnvs
    /\ case_result = PyNone
    /\ GateIdle
    /\ BaseIdle
    /\ TestIdle
    /\ RunIdle

SpecLayout == InitLayout /\ [][LayoutNext]_vars

\* --threshold: not given, or float("10")
ThresholdOverrides == {PyNone, [float |-> Pct(10)]}

\* --max-variance: the default 0.10 or 0.20; it is read from three runs on
VarianceCeilings == {DefaultMaxVariance, 2 * DefaultMaxVariance}

\* main() on one case: a case of the corpus in any environment, or a case whose
\* identifier holds any of the keywords with no baseline
InitRunTest ==
    /\ test_pc = "cases"
    /\ \/ /\ \E i \in DOMAIN TestCorpus : test_cases = <<TestCorpus[i]>>
          /\ iterations \in 0..MaxIterations
          /\ run_env \in RunEnvs(iterations)
          /\ max_variance \in (IF iterations >= 3 THEN VarianceCeilings
                                ELSE {DefaultMaxVariance})
          /\ threshold_override \in (IF iterations = 1 THEN ThresholdOverrides
                                      ELSE {PyNone})
       \/ /\ \E kw \in SUBSET Keywords :
               test_cases = <<[case_id |-> "case", type |-> "micro", keywords |-> kw]>>
          /\ iterations = 1
          /\ run_env = [baseline |-> FALSE, runs |-> <<>>]
          /\ max_variance = DefaultMaxVariance
          /\ threshold_override = PyNone
    /\ test_results = <<>>
    /\ test_passed = 0
    /\ test_failed = 0
    /\ results_file = MissingFile
    /\ avg_diff = PyNone
    /\ worst_cases = <<>>
    /\ test_exit = -1
    /\ extract_pc = "exited"
    /\ extract_results = PyNone
    /\ extracted = PyNone
    /\ extract_exit = -1
    /\ run_pc = "call"
    /\ run_locals = PyNone
    /\ run_calls = NoCalls
    /\ capture_files = EmptyDict
    /\ GateIdle
    /\ BaseIdle
    /\ LayoutIdle

SpecRunTest == InitRunTest /\ [][RunTestNext]_vars

(***************************************************************************)
(* Properties of the test runner and the extraction (SpecTest).            *)
(***************************************************************************)
\* the diff of a result with an errored case counted as 100
DiffOrWorst(r) == IF HasError(r) THEN Pct(100) ELSE r.diff_pct

\* C10: a case that ended in an error counts as diff = 100 in the test runner's
\* average and worst-case ranking and in extract_metrics' per-test diff, pass
\* flag and average.
C10_ErrorCountsAsWorstCase ==
    /\ test_pc = "exited" =>
         /\ test_results # <<>> =>
              avg_diff = [value |-> Rat(SumSeq([i \in DOMAIN test_results |->
                                                   DiffOrWorst(test_results[i])]),
                                        Len(test_results))]
         /\ \A i \in DOMAIN test_results :
              (HasError(test_results[i]) /\ Len(test_results) <= 3)
                  => test_results[i].case_id \in Range(worst_cases)
    /\ (extract_pc = "exited" /\ extract_results # PyNone) =>
         LET rs == extract_results.results
         IN (\E i \in DOMAIN rs : HasError(rs[i])) =>
              /\ extract_exit = 0
              /\ extracted # PyNone
              /\ \A i \in DOMAIN rs :
                   HasError(rs[i]) =>
                       \E t \in Range(extracted.tests) :
                           /\ t.name = rs[i].case_id
                           /\ t.diff = Pct(100)
                           /\ ~t.passed
              /\ extracted.average_diff
                   = Rat(SumSeq([i \in DOMAIN rs |-> DiffOrWorst(rs[i])]), Len(rs))


\* C24: the reporting commands end with exit code 0 whether or not cases failed:
\* the test run once it has printed its summary, and the metrics extraction once
\* it has read a results file.
C24_ReportingCommandsExitZero ==
    /\ test_pc = "exited" => test_exit = 0
    /\ (extract_pc = "exited" /\ extract_results # PyNone) => extract_exit = 0

\* C27: for every case result of the results file, extract_metrics reports the
\* passed flag that run_test recorded and, where run_test recorded a diff_pct,
\* that diff, for any iteration count and for results that ended in an error.
C27_ExtractionAgreesWithRunTest ==
    (extract_pc = "exited" /\ extract_results # PyNone) =>
        LET rs == extract_results.results
        IN /\ extracted # PyNone
           /\ \A i \in DOMAIN rs :
                \E t \in Range(extracted.tests) :
                    /\ t.name = rs[i].case_id
                    /\ t.passed = rs[i].passed
                    /\ "diff_pct" \in DOMAIN rs[i] => t.diff = rs[i].diff_pct

(***************************************************************************)
(* Properties of a capture-loop iteration (SpecLayout).                    *)
(***************************************************************************)
\* the renderer did not deliver a frame: the capture failed
CaptureFailed ==
    capture_env.raises \/ ~(capture_env.status_ok /\ capture_env.frame_exists)

\* the layout statistics main() works with carry an error: the renderer reported
\* an error object, or it reported nothing and there is no layout file
LayoutErrored ==
    IF TruthyDict(capture_env.tool_stats)
    THEN "error" \in DOMAIN capture_env.tool_stats
    ELSE capture_env.layout_file.kind = "missing"

\* C11: every estimated_diff_pct stored on a case result lies in 0..100, for any
\* sizing rate, positioning rate and zero-size count, and is 100 when the layout
\* analysis carries an error or the capture failed.
C11_EstimatedDiffInRange ==
    layout_pc = "done" =>
        LET d == case_result.estimated_diff_pct
        IN /\ RLeq(RInt(0), d)
           /\ RLeq(d, RInt(100))
           /\ (CaptureFailed \/ LayoutErrored) => d = RInt(100)

\* a successful capture whose reported rates lie above 1, so that the estimate
\* is clamped at 0
C11_Witness ==
    /\ layout_pc = "done"
    /\ ~CaptureFailed
    /\ TruthyDict(capture_env.tool_stats)
    /\ Get(capture_env.tool_stats, "sizing_rate", RInt(0)) = RInt(2)
    /\ Get(capture_env.tool_stats, "positioning_rate", RInt(0)) = RInt(1)
    /\ Get(capture_env.tool_stats, "zero_size", 0) = 0
    /\ case_result.estimated_diff_pct = RInt(0)

\* a box of a type other than text / anonymous_block with no rendered area
ZeroAreaBox(node) ==
    /\ node.type \notin {"text", "anonymous_block"}
    /\ (node.rect.width <= 0 \/ node.rect.height <= 0)

\* the types of the zero-area boxes of the subtree of `node`, in document order
RECURSIVE ZeroAreaBoxes(_)
RECURSIVE ZeroAreaBoxesOf(_)
ZeroAreaBoxes(node) ==
    (IF ZeroAreaBox(node) THEN <<node.type>> ELSE <<>>) \o ZeroAreaBoxesOf(node.children)

ZeroAreaBoxesOf(children) ==
    IF children = <<>> THEN <<>>
    ELSE ZeroAreaBoxes(Head(children)) \o ZeroAreaBoxesOf(Tail(children))

\* the layout statistics of the case come from walking the layout tree
TreeAnalyzed ==
    /\ layout_pc \in {"analyzed", "done"}
    /\ ~CaptureFailed
    /\ ~TruthyDict(capture_env.tool_stats)
    /\ capture_env.layout_file.kind = "json"
    /\ "root" \in DOMAIN capture_env.layout_file.data

\* C17: the issues of a layout tree are exactly its boxes below the root, at any
\* depth, of a type other than text / anonymous_block and with zero area, one
\* zero_size issue each.
C17_ZeroSizeIssuesBelowRoot ==
    TreeAnalyzed =>
        LET issues == case_result.layout_stats.issues
        IN /\ [i \in DOMAIN issues |-> issues[i].node_type]
                = ZeroAreaBoxesOf(capture_env.layout_file.data.root.children)
           /\ \A i \in DOMAIN issues : issues[i].type = "zero_size"


(***************************************************************************)
(* Properties of run_test and of main() on one case (SpecRunTest).         *)
(***************************************************************************)
\* run_test has returned: its result, in run_test's hands or in main()'s list
Returned == run_pc \in {"return", "idle"}

ReturnedResult == IF run_pc = "return" THEN run_locals.result ELSE test_results[1]

Completed == Returned /\ ~HasError(ReturnedResult)

\* C13: the result carries a stable value only for a run count >= 3; for a run
\* count of 1 or 2 it has no stable key at all.
C13_StableOnlyFromThreeRuns ==
    Completed =>
        /\ iterations \in {1, 2} => "stable" \notin DOMAIN ReturnedResult
        /\ iterations >= 3 => "stable" \in DOMAIN ReturnedResult

\* the diffs of the runs of the environment, each run having succeeded
Series == [i \in 1..iterations |-> Get(run_env.runs[i].pixel, "diffPercent", Pct(100))]

SeriesMax == CHOOSE v \in Range(Series) : \A u \in Range(Series) : u <= v

SeriesMin == CHOOSE v \in Range(Series) : \A u \in Range(Series) : v <= u

\* C14: when all N >= 3 runs succeed, stable is true exactly when max - min of
\* the series is <= the variance ceiling (the boundary is stable), and
\* diff_pct_variance is max - min.
C14_StableIffWithinVariance ==
    (Completed /\ iterations >= 3) =>
        /\ ReturnedResult.diff_pct_variance = SeriesMax - SeriesMin
        /\ ReturnedResult.stable <=> (SeriesMax - SeriesMin <= max_variance)

\* three runs whose spread is exactly the default ceiling 0.10, reported stable
C14_Witness ==
    /\ Completed
    /\ iterations = 3
    /\ max_variance = DefaultMaxVariance
    /\ SeriesMax - SeriesMin = DefaultMaxVariance
    /\ ReturnedResult.stable = TRUE

\* the number of runs that produced a diff before run_test returned
RunsCompleted ==
    IF ~run_env.baseline THEN 0
    ELSE LET bad == {i \in 1..iterations :
                        \/ ~run_env.runs[i].capture_ok
                        \/ Get(run_env.runs[i].pixel, "error", "") # ""}
         IN IF bad = {} THEN Max(0, iterations)
            ELSE (CHOOSE i \in bad : \A j \in bad : i <= j) - 1

\* the representative diff as the median of the runs that completed, 100 if none
MedianOfCompleted ==
    IF RunsCompleted = 0 THEN RInt(Pct(100))
    ELSE TrueMedian(SubSeq(Series, 1, RunsCompleted))

\* the representative diff as the median of the series if every run produced a
\* diff, 100 if there was no run or a run failed
MedianOfFullSeries ==
    IF RunsCompleted = 0 \/ RunsCompleted < iterations THEN RInt(Pct(100))
    ELSE TrueMedian(Series)

\* C15: passed is true exactly when the representative diff is <= the threshold,
\* the representative diff being the median of the run series whenever at least
\* one run completed (the mean of the two middle values for an even count) and
\* 100 when no run produced a diff.
C15_PassedIffMedianWithinThreshold ==
    Returned =>
        (ReturnedResult.passed <=> RLeq(MedianOfCompleted, RInt(ReturnedResult.threshold)))

\* C15 (amended): passed is true exactly when the representative diff is <= the
\* threshold, the representative diff being the median of the run series when
\* every one of the N >= 1 runs produced a diff and 100 when there was no run
\* or any run failed.
C15_PassedIffFullSeriesWithinThreshold ==
    Returned =>
        /\ ReturnedResult.passed <=> RLeq(MedianOfFullSeries, RInt(ReturnedResult.threshold))
        /\ "diff_pct" \in DOMAIN ReturnedResult =>
             RInt(ReturnedResult.diff_pct) = MedianOfFullSeries

\* two runs of an image case whose mean sits exactly on the threshold 10: passed
C15_Witness ==
    /\ Completed
    /\ iterations = 2
    /\ test_cases[1].case_id = "image-gallery"
    /\ Series[1] # Series[2]
    /\ MedianOfFullSeries = RInt(ReturnedResult.threshold)
    /\ ReturnedResult.passed = TRUE

\* the keyword rules in their order, each with its threshold in percent
ThresholdRules ==
    <<[keywords |-> {"form"}, threshold |-> 12],
      [keywords |-> {"image", "gallery"}, threshold |-> 10],
      [keywords |-> {"gradient"}, threshold |-> 15],
      [keywords |-> {"sticky", "scroll"}, threshold |-> 25],
      [keywords |-> {"typography", "text"}, threshold |-> 20]>>

\* the rules of which a keyword occurs in the identifier
MatchingRules(kw) == {i \in DOMAIN ThresholdRules : ThresholdRules[i].keywords \cap kw # {}}

\* C16: the threshold of a case is that of the first rule, in the order form,
\* image/gallery, gradient, sticky/scroll, typography/text, of which a keyword
\* occurs in the identifier (12, 10, 15, 25, 20), else the default 15.
C16_ThresholdOfFirstMatchingRule ==
    run_pc # "call" =>
        LET kw == test_cases[1].keywords
            m == MatchingRules(kw)
            threshold == IF run_pc = "idle" THEN test_results[1].threshold
                         ELSE run_locals.result.threshold
        IN threshold = IF m = {} THEN Pct(15)
                       ELSE Pct(ThresholdRules[CHOOSE i \in m : \A j \in m : i <= j].threshold)

\* an identifier that holds a keyword of the form rule and of three later rules
C16_Witness ==
    /\ run_pc = "idle"
    /\ test_cases[1].keywords = {"form", "image", "scroll", "text"}
    /\ test_results[1].threshold = Pct(12)

\* both snapshots of a comparison exist and were read
Compared(chrome, rustkit) ==
    /\ chrome.kind = "json"
    /\ rustkit.kind = "json"
    /\ ~CompareRaises(chrome, rustkit)

\* the baseline selectors in baseline order, without repetitions
RECURSIVE Distinct(_)
Distinct(s) ==
    IF s = <<>> THEN <<>>
    ELSE IF s[Len(s)] \in Range(Front(s)) THEN Distinct(Front(s))
    ELSE Append(Distinct(Front(s)), s[Len(s)])

BaselineSelectors(chrome) ==
    Distinct([i \in DOMAIN Get(chrome.data, "elements", <<>>) |-> chrome.data.elements[i].selector])

CapturedSelectors(rustkit) ==
    {SelectorOf(Get(rustkit.data, "elements", <<>>)[i]) :
        i \in DOMAIN Get(rustkit.data, "elements", <<>>)}

\* the captured snapshot without the selectors the baseline does not have
WithoutExtras(chrome, rustkit) ==
    JsonFile([elements |->
        SelectSeq(Get(rustkit.data, "elements", <<>>),
                  LAMBDA e : SelectorOf(e) \in Range(BaselineSelectors(chrome)))])

\* what C20 says of one comparison result r of the snapshots chrome and rustkit;
\* again is the result of the comparison without the capture's extra selectors,
\* listed is the set of the baseline selectors that the differences may list
ExactCounts(r, again, chrome, rustkit, listed) ==
    LET base == BaselineSelectors(chrome)
        lacking == {k \in Range(base) : k \notin CapturedSelectors(rustkit)}
        mismatches == SelectSeq(base, LAMBDA k : k \in listed)
    IN /\ r.matched + r.mismatched = Len(base)
       /\ r.mismatched >= Cardinality(lacking)
       /\ r.matched <= Len(base) - Cardinality(lacking)
       /\ again.matched = r.matched
       /\ again.mismatched = r.mismatched
       /\ Len(r.differences) <= 10
       /\ [i \in DOMAIN r.differences |-> r.differences[i].selector]
            = SubSeq(mismatches, 1, Min(10, Len(mismatches)))

\* the baseline selectors that mismatch: no counterpart, or a difference
StyleMismatches(chrome, rustkit) ==
    {k \in Range(BaselineSelectors(chrome)) :
        \/ k \notin CapturedSelectors(rustkit)
        \/ StyleDiffs(SelectorValue(chrome.data.elements, k),
                      SelectorValue(rustkit.data.elements, k)) # <<>>}

RectMismatches(chrome, rustkit) ==
    {k \in Range(BaselineSelectors(chrome)) :
        \/ k \notin CapturedSelectors(rustkit)
        \/ RectDiffs(SelectorValue(chrome.data.elements, k),
                     SelectorValue(rustkit.data.elements, k)) # <<>>}

\* C20: in compare_styles and compare_rects matched + mismatched is the number
\* of distinct baseline selectors, a baseline selector without a counterpart is
\* counted as mismatched, selectors only in the capture change no count, and
\* differences holds at most 10 entries: the first mismatches in baseline order.
C20_ExactCountsTruncatedList ==
    (Completed /\ "chrome_styles" \in DOMAIN run_env) =>
        LET cs == run_env.chrome_styles
            rs == run_env.rustkit_styles
            cr == run_env.chrome_rects
            rr == run_env.rustkit_rects
        IN /\ Compared(cs, rs) =>
                ExactCounts(ReturnedResult.styles, compare_styles(cs, WithoutExtras(cs, rs)),
                            cs, rs, StyleMismatches(cs, rs))
           /\ Compared(cr, rr) =>
                ExactCounts(ReturnedResult.rects, compare_rects(cr, WithoutExtras(cr, rr)),
                            cr, rr, RectMismatches(cr, rr))

\* the keys that only a result whose runs all succeeded carries
SeriesKeys ==
    {"pixel_runs", "diff_pct_median", "diff_pct_min", "diff_pct_max", "diff_pct_variance",
     "stable", "diff_pct"}

\* C28: the runs of a case are started one after the other, and the first run
\* whose capture or pixel comparison fails ends the case: no later run is started
\* and no style or rect comparison is made, the result carries an error and
\* passed = false, and none of pixel_runs, median, min, max, variance, stable and
\* diff_pct, even when earlier runs had succeeded.
C28_FirstFailedRunEndsCase ==
    /\ run_pc = "loop" =>
          /\ run_calls.capture = run_locals.run_idx
          /\ Len(run_locals.run_diffs) = run_locals.run_idx
    /\ (Returned /\ run_env.baseline /\ RunsCompleted < iterations) =>
          /\ HasError(ReturnedResult)
          /\ ReturnedResult.passed = FALSE
          /\ DOMAIN ReturnedResult \cap SeriesKeys = {}
          /\ run_calls.capture = RunsCompleted + 1
          /\ run_calls.pixel \in {RunsCompleted, RunsCompleted + 1}
          /\ run_calls.styles = 0
          /\ run_calls.rects = 0

\* the second of three runs failed after the first had succeeded
C28_Witness ==
    /\ Returned
    /\ iterations = 3
    /\ RunsCompleted = 1
    /\ run_calls.capture = 2
    /\ HasError(ReturnedResult)
    /\ DOMAIN ReturnedResult \cap SeriesKeys = {}

\* C23: when the test command is run with --threshold <pct>, the result of the
\* case carries that threshold and passes exactly when its diff is <= the given
\* value.
C23_ThresholdOverrideApplies ==
    (Returned /\ threshold_override # PyNone) =>
        /\ ReturnedResult.threshold = threshold_override.float
        /\ "diff_pct" \in DOMAIN ReturnedResult =>
              (ReturnedResult.passed <=> ReturnedResult.diff_pct <= threshold_override.float)

\* C22: across the runs of one case no capture artifact written by an earlier
\* run is overwritten by a later run: a file on disk keeps the run that wrote it.
C22_LaterRunKeepsEarlierArtifacts ==
    [][\A p \in DOMAIN capture_files :
          p \in DOMAIN capture_files' /\ capture_files'[p] = capture_files[p]]_vars

(***************************************************************************)
(* Properties of the end of the baseline run (SpecBaseline).               *)
(***************************************************************************)
CaseIds(cases) == [i \in DOMAIN cases |-> cases[i].case_id]

\* the baseline run is past its capture loops and has written its report
ReportWritten ==
    base_pc \in {"workorders", "packets", "archive"} \/ (base_pc = "done" /\ base_exit = 0)

\* C21: the failure of one case never ends the run: the baseline run never stops
\* in a capture loop, its report lists every built-in and every websuite case
\* in order, a case whose capture failed with success = false; and the results
\* file of the test runner lists every case of the run in order.
C21_CaseFailureNeverAbortsRun ==
    /\ base_pc # "raised"
    /\ ReportWritten =>
          /\ report_file.kind = "json"
          /\ CaseIds(report_file.data.builtin_results) = CaseIds(builtins)
          /\ CaseIds(report_file.data.websuite_results) = CaseIds(websuite)
          /\ \A i \in DOMAIN builtins :
                ~builtins[i].capture.success =>
                    ~report_file.data.builtin_results[i].success
    /\ (test_pc = "summary" \/ (test_pc = "exited" /\ test_exit # -1)) =>
          /\ results_file.kind = "json"
          /\ CaseIds(results_file.data.results) = CaseIds(test_cases)

\* the issue-cluster maps of the run: one per captured case, and the run total
\* in main()'s hands and in the report
ClusterMaps ==
    {r.issue_clusters : r \in Range(builtin_results \o websuite_results)}
        \cup (IF ReportWritten THEN {total_clusters, report_file.data.issue_clusters} ELSE {})

\* C29: in every issue-cluster map of the baseline run, per case and in total,
\* the paint count is 0; the text count is 0 when the issues come from
\* analyze_layout; a case whose capture failed contributes one sizing_layout issue
\* and nothing else; and the total of each category is the sum of the counts of
\* the cases.
C29_ClusterCounts ==
    LET cases == builtins \o websuite
        results == builtin_results \o websuite_results
    IN /\ \A c \in ClusterMaps : Get(c, "paint", 0) = 0
       /\ \A i \in DOMAIN results :
             /\ (cases[i].capture.success /\ "issues" \notin DOMAIN cases[i].capture) =>
                   Get(results[i].issue_clusters, "text", 0) = 0
             /\ ~cases[i].capture.success =>
                   results[i].issue_clusters = [sizing_layout |-> 1]
       /\ ReportWritten =>
             /\ report_file.data.issue_clusters = total_clusters
             /\ DOMAIN total_clusters = {"sizing_layout", "paint", "text", "images"}
             /\ \A k \in DOMAIN total_clusters :
                   total_clusters[k] =
                       SumSeq([i \in DOMAIN results |-> Get(results[i].issue_clusters, k, 0)])

\* a failed capture next to a capture whose layout file had boxes of type text
\* and image without area
C29_Witness ==
    /\ base_pc = "done"
    /\ Len(builtin_results) = 2
    /\ ~builtin_results[1].success
    /\ "layout_file" \in DOMAIN builtins[2].capture
    /\ builtin_results[2].issue_clusters = [sizing_layout |-> 0, paint |-> 0, text |-> 0, images |-> 1]
    /\ total_clusters = [sizing_layout |-> 1, paint |-> 0, text |-> 0, images |-> 1]

\* the report main() builds from the results of the run
BuiltReport ==
    [metrics |-> compute_weighted_metrics(builtin_results, websuite_results),
     issue_clusters |-> AggregateClusters(ZeroClusters, builtin_results \o websuite_results),
     builtin_results |-> builtin_results,
     websuite_results |-> websuite_results]

\* the archive step was attempted and archive_run returned nothing
ArchiveFailed == auto_archive /\ base_pc = "done" /\ base_exit # -1 /\ ~history_dir.writable

\* C26: archiving is best-effort: no work order, failure packet or archive entry
\* exists before the report file is written in full; from then on the report file
\* stays the report of the run; and when archive_run returns nothing, main()
\* reports the failure, leaves the report and the history as they are and ends
\* with exit status 0.
C26_ArchiveIsBestEffort ==
    /\ ~ReportWritten =>
          /\ workorders_created = <<>>
          /\ packets_created = <<>>
          /\ archive_status = ""
          /\ trend = EmptyDict
    /\ ReportWritten => report_file = JsonFile(BuiltReport)
    /\ ArchiveFailed =>
          /\ archive_status = "Failed to archive run"
          /\ trend = EmptyDict
          /\ history_dir.entries = <<>>
          /\ base_exit = 0

\* a run that wrote its report, a work order and a failure packet, and whose
\* archive step failed
C26_Witness ==
    /\ ArchiveFailed
    /\ archive_status = "Failed to archive run"
    /\ base_exit = 0
    /\ report_file = JsonFile(BuiltReport)
    /\ workorders_created # <<>>
    /\ packets_created # <<>>

\* main() printed the comparison to the previous run
TrendPrinted == base_pc = "done" /\ trend # EmptyDict

\* the summaries the comparison read: the entry of this run and the one before it
CurrSummary == history_dir.entries[Len(history_dir.entries)].data

PrevSummary == history_dir.entries[Len(history_dir.entries) - 1].data

\* the diff of a case in a summary, 100 when the summary does not give it
SummaryDiff(summary, id) ==
    LET cases == Get(summary, "case_diffs", EmptyDict)
    IN IF id \in DOMAIN cases /\ "diff_pct" \in DOMAIN cases[id] THEN cases[id].diff_pct
       ELSE 100

\* the cases of either summary
SummaryCases ==
    DOMAIN Get(PrevSummary, "case_diffs", EmptyDict)
        \cup DOMAIN Get(CurrSummary, "case_diffs", EmptyDict)

====
